---- MODULE Spec2Model ----
(***************************************************************************)
(* Snapshot size attribution and threshold evaluation of check-vmware:     *)
(* FilterVMsWithSnapshots, NewSnapshotSummarySet (with its crawlFunc       *)
(* closure), ExceedsAge / ExceedsSize and the SnapshotSummarySet(s)        *)
(* aggregation methods, driven by the plugin's loop over the machines.     *)
(***************************************************************************)
EXTENDS Integers, Sequences, FiniteSets, TLC

VARIABLES
    call,               \* a function called on its own: arguments and result
    vms,                \* filteredVMs: the machines handed to the plugin
    cfg,                \* the four thresholds of the configuration
    clockEnd,           \* the wall clock's reading when the run ends
    now,                \* the wall clock (seconds), read by time.Now()
    pc,                 \* position of the plugin
    vmsWithSnapshots,   \* result of FilterVMsWithSnapshots
    vmIdx,              \* index of the machine being summarised
    vmAllDiskFileKeys,  \* NewSnapshotSummarySet: keys of all attached disks
    fileKeyMap,         \* NewSnapshotSummarySet: file key -> file info
    stack,              \* crawlFunc activations: [snapTrees, i, parent]
    snapshots,          \* NewSnapshotSummarySet: summaries collected so far
    locals,             \* crawlFunc: each node's key lists and clock readings
    snapshotSets,       \* the plugin's SnapshotSummarySets collection
    nagiosExitState,    \* the plugin's exit state: its ExitStatusCode
    globalLevel         \* zerolog's global logging level

vars == <<call, vms, cfg, clockEnd, now, pc, vmsWithSnapshots, vmIdx,
          vmAllDiskFileKeys,
          fileKeyMap, stack, snapshots, locals, snapshotSets,
          nagiosExitState, globalLevel>>

----------------------------------------------------------------------------
(* Bounds of the model.                                                    *)

\* most snapshots of one machine
MaxSnapshots == 3
\* seconds the clock may advance during one run
MaxElapsed == 1

(* Program constants.                                                      *)

\* units.GB, 1 << 30 bytes
GB == 1073741824
\* seconds in the calendar day that time.AddDate(0, 0, -days) winds back
\* (no daylight-saving change inside the window)
Day == 86400
\* a nil *types.ManagedObjectReference
NoRef == 0

\* time.Now() at the start of the run
StartTime == 100 * Day

----------------------------------------------------------------------------
(* int64 values.  TLC's integers are 32 bits wide, so an int64 v is kept   *)
(* exactly as three limbs <<h, m, r>> with v = h * 2^60 + m * GB + r,      *)
(* 0 <= m < GB, 0 <= r < GB and -8 <= h < 8: h holds the top four bits,    *)
(* the sign included, and arithmetic wraps as Go's does.                   *)

Int64(h, m, r) == <<h, m, r>>

\* q GB and r bytes
Bytes(q, r) == Int64(0, q, r)

Zero == Bytes(0, 0)

\* int64(n) of an int 0 <= n < GB
Int64Of(n) == Int64(0, 0, n)

\* the top limb in two's complement
WrapTop(h) == ((h + 8) % 16) - 8

Int64Add(a, b) ==
    LET r == a[3] + b[3]
        m == a[2] + b[2] + (r \div GB)
    IN  <<WrapTop(a[1] + b[1] + (m \div GB)), m % GB, r % GB>>

Int64Gt(a, b) ==
    \/ a[1] > b[1]
    \/ a[1] = b[1] /\ a[2] > b[2]
    \/ a[1] = b[1] /\ a[2] = b[2] /\ a[3] > b[3]

\* thresholdSize * units.GB: the limbs move up by one, the bits past the
\* 64th are lost
TimesGB(thresholdSize) == <<WrapTop(thresholdSize[2]), thresholdSize[3], 0>>

----------------------------------------------------------------------------
(* Logging levels (package config).                                        *)

LogLevelDisabled == "disabled"

LogLevelPanic == "panic"

LogLevelFatal == "fatal"

LogLevelError == "error"

LogLevelWarn == "warn"

LogLevelInfo == "info"

LogLevelDebug == "debug"

LogLevelTrace == "trace"

\* the map init() fills: level name -> zerolog.Level
loggingLevels ==
    (LogLevelDisabled :> "zerolog.Disabled") @@ (LogLevelPanic :> "zerolog.PanicLevel")
    @@ (LogLevelFatal :> "zerolog.FatalLevel") @@ (LogLevelError :> "zerolog.ErrorLevel")
    @@ (LogLevelWarn :> "zerolog.WarnLevel") @@ (LogLevelInfo :> "zerolog.InfoLevel")
    @@ (LogLevelDebug :> "zerolog.DebugLevel") @@ (LogLevelTrace :> "zerolog.TraceLevel")

\* a nil error
NoError == <<>>

\* fmt.Errorf("invalid option provided: %v", logLevel)
InvalidOption(logLevel) == <<"invalid option provided: %v", logLevel>>

\* setLoggingLevel whose warn case sets the level of the info case
setLoggingLevelWarnAsInfo(logLevel, level) ==
    CASE logLevel = LogLevelDisabled ->
             [globalLevel |-> loggingLevels[LogLevelDisabled], err |-> NoError]
      [] logLevel = LogLevelPanic ->
             [globalLevel |-> loggingLevels[LogLevelPanic], err |-> NoError]
      [] logLevel = LogLevelFatal ->
             [globalLevel |-> loggingLevels[LogLevelFatal], err |-> NoError]
      [] logLevel = LogLevelError ->
             [globalLevel |-> loggingLevels[LogLevelError], err |-> NoError]
      [] logLevel = LogLevelWarn ->
             [globalLevel |-> loggingLevels[LogLevelInfo], err |-> NoError]
      [] logLevel = LogLevelInfo ->
             [globalLevel |-> loggingLevels[LogLevelInfo], err |-> NoError]
      [] logLevel = LogLevelDebug ->
             [globalLevel |-> loggingLevels[LogLevelDebug], err |-> NoError]
      [] logLevel = LogLevelTrace ->
             [globalLevel |-> loggingLevels[LogLevelTrace], err |-> NoError]
      [] OTHER -> [globalLevel |-> level, err |-> InvalidOption(logLevel)]

\* setLoggingLevel called while the global level is level: the global level
\* after the call and the error returned
setLoggingLevel(logLevel, level) ==
    CASE logLevel = LogLevelDisabled ->
             [globalLevel |-> loggingLevels[LogLevelDisabled], err |-> NoError]
      [] logLevel = LogLevelPanic ->
             [globalLevel |-> loggingLevels[LogLevelPanic], err |-> NoError]
      [] logLevel = LogLevelFatal ->
             [globalLevel |-> loggingLevels[LogLevelFatal], err |-> NoError]
      [] logLevel = LogLevelError ->
             [globalLevel |-> loggingLevels[LogLevelError], err |-> NoError]
      [] logLevel = LogLevelWarn ->
             [globalLevel |-> loggingLevels[LogLevelWarn], err |-> NoError]
      [] logLevel = LogLevelInfo ->
             [globalLevel |-> loggingLevels[LogLevelInfo], err |-> NoError]
      [] logLevel = LogLevelDebug ->
             [globalLevel |-> loggingLevels[LogLevelDebug], err |-> NoError]
      [] logLevel = LogLevelTrace ->
             [globalLevel |-> loggingLevels[LogLevelTrace], err |-> NoError]
      [] OTHER -> [globalLevel |-> level, err |-> InvalidOption(logLevel)]

----------------------------------------------------------------------------
(* Threshold evaluation.                                                   *)

\* ExceedsSize with >= in place of >
ExceedsSizeInclusive(snapshotSize, thresholdSize) ==
    ~Int64Gt(TimesGB(thresholdSize), snapshotSize)

ExceedsSize(snapshotSize, thresholdSize) ==
    Int64Gt(snapshotSize, TimesGB(thresholdSize))

\* ExceedsAge with the Equal case answering true
ExceedsAgeInclusive(snapshotCreated, days, clock) ==
    snapshotCreated <= clock - days * Day

\* ExceedsAge with the days handed to AddDate as months of 30 days
ExceedsAgeMonths(snapshotCreated, days, clock) ==
    snapshotCreated < clock - days * 30 * Day

\* clock is the value time.Now() returns inside the call
ExceedsAge(snapshotCreated, days, clock) ==
    LET daysBack == -(days)
        ageThreshold == clock + daysBack * Day
    IN  CASE snapshotCreated < ageThreshold -> TRUE
          [] snapshotCreated = ageThreshold -> FALSE
          [] snapshotCreated > ageThreshold -> FALSE

IsAgeExceeded(ss, days, clock) == ExceedsAge(ss.createTime, days, clock)

IsSizeExceeded(ss, sizeGB) == ExceedsSize(ss.Size, Int64Of(sizeGB))

----------------------------------------------------------------------------
(* Key lists.                                                              *)

\* removeFileKey handed the slice instead of a pointer to it: the caller's
\* list is left as it was
removeFileKeyByValue(l, key) == l

\* removeFileKey cutting the list at the first match: the keys after the
\* match go with it
RECURSIVE removeFileKeyAndRest(_, _)
removeFileKeyAndRest(l, key) ==
    IF l = <<>> THEN <<>>
    ELSE IF Head(l) = key THEN <<>>
    ELSE <<Head(l)>> \o removeFileKeyAndRest(Tail(l), key)

RECURSIVE removeFileKey(_, _)
removeFileKey(l, key) ==
    IF l = <<>> THEN <<>>
    ELSE IF Head(l) = key THEN Tail(l)
    ELSE <<Head(l)>> \o removeFileKey(Tail(l), key)

\* for _, key := range keys { removeFileKey(&l, key) }
RECURSIVE RemoveFileKeys(_, _)
RemoveFileKeys(l, keys) ==
    IF keys = <<>> THEN l
    ELSE RemoveFileKeys(removeFileKey(l, Head(keys)), Tail(keys))

\* for _, link := range disk.Chain { keys = append(keys, link.FileKey...) }
RECURSIVE ChainFileKeys(_)
ChainFileKeys(chain) ==
    IF chain = <<>> THEN <<>>
    ELSE Head(chain).FileKey \o ChainFileKeys(Tail(chain))

\* for _, disk := range disks { for _, link := range disk.Chain { ... } }
RECURSIVE DiskFileKeys(_)
DiskFileKeys(disks) ==
    IF disks = <<>> THEN <<>>
    ELSE ChainFileKeys(Head(disks).Chain) \o DiskFileKeys(Tail(disks))

\* fileKeyMap[fileLayout.Key] = fileLayout, in list order
RECURSIVE BuildFileKeyMap(_)
BuildFileKeyMap(files) ==
    IF files = <<>> THEN [k \in {} |-> Zero]
    ELSE LET n == Len(files)
             m == BuildFileKeyMap(SubSeq(files, 1, n - 1))
         IN  [k \in DOMAIN m \cup {files[n].Key} |->
                 IF k = files[n].Key THEN files[n].Size ELSE m[k]]

\* a lookup that answers -1 for a key the map does not hold
FileSizeOrMinusOne(m, fileKey) ==
    IF fileKey \in DOMAIN m THEN m[fileKey] ELSE Int64(-1, GB - 1, GB - 1)

\* fileKeyMap[fileKey].Size: the zero value for a key the map does not hold
FileSize(m, fileKey) == IF fileKey \in DOMAIN m THEN m[fileKey] ELSE Zero

\* for _, fileKey := range keys { snapshotSize += fileKeyMap[fileKey].Size }
RECURSIVE AddFileSizes(_, _, _)
AddFileSizes(snapshotSize, m, keys) ==
    IF keys = <<>> THEN snapshotSize
    ELSE AddFileSizes(Int64Add(snapshotSize, FileSize(m, Head(keys))), m, Tail(keys))

\* the same loop without the comparison of snapLayout.Key with the node:
\* every layout entry is taken for the node's
RECURSIVE CollectFileKeysAnyEntry(_, _, _, _)
CollectFileKeysAnyEntry(layout, node, parent, acc) ==
    IF layout = <<>> THEN acc
    ELSE LET snapLayout == Head(layout)
             a1 == [acc EXCEPT !.snap =
                       (@ \o <<snapLayout.DataKey>>) \o DiskFileKeys(snapLayout.Disk)]
             a2 == IF parent # NoRef /\ snapLayout.Key = parent
                   THEN [a1 EXCEPT !.parent = @ \o DiskFileKeys(snapLayout.Disk)]
                   ELSE a1
         IN  CollectFileKeysAnyEntry(Tail(layout), node, parent, a2)

\* the loop over vm.LayoutEx.Snapshot collecting the node's and its
\* parent's keys; acc is [snap |-> ..., parent |-> ...]
RECURSIVE CollectFileKeys(_, _, _, _)
CollectFileKeys(layout, node, parent, acc) ==
    IF layout = <<>> THEN acc
    ELSE LET snapLayout == Head(layout)
             a1 == IF snapLayout.Key = node
                   THEN [acc EXCEPT !.snap =
                            (@ \o <<snapLayout.DataKey>>) \o DiskFileKeys(snapLayout.Disk)]
                   ELSE acc
             a2 == IF parent # NoRef /\ snapLayout.Key = parent
                   THEN [a1 EXCEPT !.parent = @ \o DiskFileKeys(snapLayout.Disk)]
                   ELSE a1
         IN  CollectFileKeys(Tail(layout), node, parent, a2)

----------------------------------------------------------------------------
(* SnapshotSummarySet and SnapshotSummarySets methods.                     *)

\* SnapshotSummarySet.Size
RECURSIVE SumSnapshotSizes(_)
SumSnapshotSizes(snaps) ==
    IF snaps = <<>> THEN Zero
    ELSE Int64Add(SumSnapshotSizes(SubSeq(snaps, 1, Len(snaps) - 1)),
                  snaps[Len(snaps)].Size)

SetSize(set) == SumSnapshotSizes(set.Snapshots)

SnapIsWarningState(ss) == ss.ageWarningState \/ ss.sizeWarningState

SnapIsCriticalState(ss) == ss.ageCriticalState \/ ss.sizeCriticalState

SetIsWarningState(set) ==
    \E i \in 1..Len(set.Snapshots) : SnapIsWarningState(set.Snapshots[i])

SetIsCriticalState(set) ==
    \E i \in 1..Len(set.Snapshots) : SnapIsCriticalState(set.Snapshots[i])

SetIsAgeWarningState(set) ==
    \E i \in 1..Len(set.Snapshots) : set.Snapshots[i].ageWarningState

SetIsAgeCriticalState(set) ==
    \E i \in 1..Len(set.Snapshots) : set.Snapshots[i].ageCriticalState

SetIsSizeWarningState(set) == set.setSizeWarningState

SetIsSizeCriticalState(set) == set.setSizeCriticalState

IsWarningState(sss) == \E i \in 1..Len(sss) : SetIsWarningState(sss[i])

IsCriticalState(sss) == \E i \in 1..Len(sss) : SetIsCriticalState(sss[i])

IsAgeWarningState(sss) == \E i \in 1..Len(sss) : SetIsAgeWarningState(sss[i])

IsAgeCriticalState(sss) == \E i \in 1..Len(sss) : SetIsAgeCriticalState(sss[i])

IsSizeWarningState(sss) == \E i \in 1..Len(sss) : SetIsSizeWarningState(sss[i])

IsSizeCriticalState(sss) == \E i \in 1..Len(sss) : SetIsSizeCriticalState(sss[i])

\* SnapshotSummarySet.ExceedsAge: numExceeded; clock is the reading of
\* time.Now() inside the calls of IsAgeExceeded
SetExceedsAge(set, days, clock) ==
    Cardinality({i \in DOMAIN set.Snapshots :
                    IsAgeExceeded(set.Snapshots[i], days, clock)})

\* SnapshotSummarySet.ExceedsSize: numSnapshotsExceeded
SetExceedsSize(set, sizeGB) ==
    Cardinality({i \in DOMAIN set.Snapshots :
                    IsSizeExceeded(set.Snapshots[i], sizeGB)})

\* the sum of f[i] over the indices I
RECURSIVE SumOver(_, _)
SumOver(f, I) ==
    IF I = {} THEN 0
    ELSE LET i == CHOOSE x \in I : TRUE IN f[i] + SumOver(f, I \ {i})

\* SnapshotSummarySets.ExceedsAge: setsExceeded, snapshotsExceeded
SetsExceedsAge(sss, days, clock) ==
    LET exceeded == {i \in DOMAIN sss : SetExceedsAge(sss[i], days, clock) >= 1}
    IN  <<Cardinality(exceeded),
          SumOver([i \in DOMAIN sss |-> SetExceedsAge(sss[i], days, clock)], exceeded)>>

\* SnapshotSummarySets.ExceedsSize counting the sets by their snapshots
SetsExceedsSizeBySnapshot(sss, sizeGB) ==
    LET exceeded == {i \in DOMAIN sss : SetExceedsSize(sss[i], sizeGB) >= 1}
    IN  <<Cardinality(exceeded),
          SumOver([i \in DOMAIN sss |-> SetExceedsSize(sss[i], sizeGB)], exceeded)>>

\* SnapshotSummarySets.ExceedsSize: numSetsExceeded, numSnapshotsExceeded
SetsExceedsSize(sss, sizeGB) ==
    LET exceeded == {i \in DOMAIN sss :
                        Int64Gt(SetSize(sss[i]), TimesGB(Int64Of(sizeGB)))}
    IN  <<Cardinality(exceeded),
          SumOver([i \in DOMAIN sss |-> Len(sss[i].Snapshots)], exceeded)>>

----------------------------------------------------------------------------
(* FilterVMsWithSnapshots.  A nil RootSnapshotList is the empty sequence:  *)
(* the inventory decoder never yields an empty list that is not nil.       *)

\* the filter letting every machine through
FilterVMsKeepAll(list) == list

RECURSIVE FilterVMsWithSnapshots(_)
FilterVMsWithSnapshots(list) ==
    IF list = <<>> THEN <<>>
    ELSE LET vm == Head(list)
         IN  (IF ~vm.Snapshot.IsNil /\ vm.Snapshot.RootSnapshotList # <<>>
              THEN <<vm>> ELSE <<>>) \o FilterVMsWithSnapshots(Tail(list))

----------------------------------------------------------------------------
(* NewSnapshotSummarySet, one crawlFunc loop iteration per step.           *)

\* the switch with the parent's keys removed in both cases
PruneByParent(snapKeys, parentKeys, allDiskKeys, parent) ==
    RemoveFileKeys(snapKeys, parentKeys)

\* the switch with the attached disks' keys removed in both cases
PruneByAllDisks(snapKeys, parentKeys, allDiskKeys, parent) ==
    RemoveFileKeys(snapKeys, allDiskKeys)

\* the switch on parent: the keys left in snapshotDiskFileKeys
Prune(snapKeys, parentKeys, allDiskKeys, parent) ==
    IF parent = NoRef
    THEN RemoveFileKeys(snapKeys, allDiskKeys)
    ELSE RemoveFileKeys(snapKeys, parentKeys)

\* the key lists crawlFunc computes for snapTree under parent (NoRef: none)
NodeKeys(vm, allDiskKeys, snapTree, parent) ==
    LET got == CollectFileKeys(vm.LayoutEx.Snapshot, snapTree.Snapshot, parent,
                               [snap |-> <<>>, parent |-> <<>>])
        allSnapshotKeys == got.snap
        pruned == Prune(got.snap, got.parent, allDiskKeys, parent)
        active == snapTree.Snapshot = vm.Snapshot.CurrentSnapshot
        remaining == IF active
                     THEN RemoveFileKeys(allDiskKeys, allSnapshotKeys)
                     ELSE allDiskKeys
    IN  [snapTree |-> snapTree.Snapshot,
         parent |-> parent,
         allSnapshotKeys |-> allSnapshotKeys,
         parentSnapshotDiskFileKeys |-> got.parent,
         snapshotDiskFileKeys |-> pruned,
         remainingDiskFiles |-> remaining,
         active |-> active]

\* snapshotSize without the addition made for the active snapshot
NodeSizeOwnOnly(m, keys) == AddFileSizes(Zero, m, keys.snapshotDiskFileKeys)

\* snapshotSize as crawlFunc sums it from the key lists
NodeSize(m, keys) ==
    LET own == AddFileSizes(Zero, m, keys.snapshotDiskFileKeys)
    IN  IF keys.active THEN AddFileSizes(own, m, keys.remainingDiskFiles)
        ELSE own

\* the SnapshotSummary literal with the age thresholds the other way round
NewSnapshotSummaryAgeSwapped(vm, snapTree, snapshotSize, t1, t2, snapshotsAgeCritical, snapshotsAgeWarning, snapshotsSizeCritical, snapshotsSizeWarning) ==
    [MOID |-> snapTree.Snapshot,
     VMName |-> vm.Name,
     Size |-> snapshotSize,
     createTime |-> snapTree.CreateTime,
     ageWarningState |-> ExceedsAge(snapTree.CreateTime, snapshotsAgeCritical, t1),
     ageCriticalState |-> ExceedsAge(snapTree.CreateTime, snapshotsAgeWarning, t2),
     sizeWarningState |-> ExceedsSize(snapshotSize, Int64Of(snapshotsSizeCritical)),
     sizeCriticalState |-> ExceedsSize(snapshotSize, Int64Of(snapshotsSizeWarning))]

\* the SnapshotSummary literal appended for snapTree; t1 and t2 are the
\* clock readings of the two ExceedsAge calls
NewSnapshotSummary(vm, snapTree, snapshotSize, t1, t2, snapshotsAgeCritical, snapshotsAgeWarning, snapshotsSizeCritical, snapshotsSizeWarning) ==
    [MOID |-> snapTree.Snapshot,
     VMName |-> vm.Name,
     Size |-> snapshotSize,
     createTime |-> snapTree.CreateTime,
     ageWarningState |-> ExceedsAge(snapTree.CreateTime, snapshotsAgeWarning, t1),
     ageCriticalState |-> ExceedsAge(snapTree.CreateTime, snapshotsAgeCritical, t2),
     sizeWarningState |-> ExceedsSize(snapshotSize, Int64Of(snapshotsSizeCritical)),
     sizeCriticalState |-> ExceedsSize(snapshotSize, Int64Of(snapshotsSizeWarning))]

\* the set literal with the thresholds the other way round, as in the
\* summary literal
NewSetSwapped(vm, snaps, snapshotsSizeCritical, snapshotsSizeWarning) ==
    LET setSize == SumSnapshotSizes(snaps)
    IN  [VMName |-> vm.Name,
         Snapshots |-> snaps,
         setSizeWarningState |-> ExceedsSize(setSize, Int64Of(snapshotsSizeCritical)),
         setSizeCriticalState |-> ExceedsSize(setSize, Int64Of(snapshotsSizeWarning))]

\* the SnapshotSummarySet literal NewSnapshotSummarySet returns
NewSet(vm, snaps, snapshotsSizeCritical, snapshotsSizeWarning) ==
    LET setSize == SumSnapshotSizes(snaps)
    IN  [VMName |-> vm.Name,
         Snapshots |-> snaps,
         setSizeWarningState |-> ExceedsSize(setSize, Int64Of(snapshotsSizeWarning)),
         setSizeCriticalState |-> ExceedsSize(setSize, Int64Of(snapshotsSizeCritical))]

CurVM == vmsWithSnapshots[vmIdx]

\* no function is called on its own
NoCall == [fn |-> "none", returned |-> FALSE]

\* crawlFunc handed the caller's own parent instead of the node it is
\* called for
crawlFuncParentOfCaller(callers, snapTrees, parent) ==
    IF snapTrees = <<>> THEN callers
    ELSE Append(callers,
                [snapTrees |-> snapTrees, i |-> 1,
                 parent |-> IF callers = <<>> THEN NoRef
                            ELSE callers[Len(callers)].parent])

\* crawlFunc entered with its loop put off until the caller's loop is over
crawlFuncDeferred(callers, snapTrees, parent) ==
    IF snapTrees = <<>> THEN callers
    ELSE <<[snapTrees |-> snapTrees, i |-> 1, parent |-> parent]>> \o callers

\* a call of crawlFunc made from the activations callers: it returns at once
\* for an empty list, else its loop starts at the first tree
crawlFunc(callers, snapTrees, parent) ==
    IF snapTrees = <<>> THEN callers
    ELSE Append(callers, [snapTrees |-> snapTrees, i |-> 1, parent |-> parent])

\* main: vmsWithSnapshots := vsphere.FilterVMsWithSnapshots(filteredVMs)
FilterVMs ==
    /\ pc = "filter"
    /\ vmsWithSnapshots' = FilterVMsWithSnapshots(vms)
    /\ vmIdx' = 1
    /\ pc' = "loop"
    /\ UNCHANGED <<call, vms, cfg, clockEnd, now, vmAllDiskFileKeys,
                   fileKeyMap, stack, snapshots, locals, snapshotSets,
                   nagiosExitState, globalLevel>>

\* NewSnapshotSummarySet up to the first crawlFunc call
BeginSet ==
    /\ pc = "loop"
    /\ vmIdx <= Len(vmsWithSnapshots)
    /\ vmAllDiskFileKeys' = DiskFileKeys(CurVM.LayoutEx.Disk)
    /\ fileKeyMap' = BuildFileKeyMap(CurVM.LayoutEx.File)
    /\ snapshots' = <<>>
    /\ locals' = <<>>
    /\ stack' = crawlFunc(<<>>, CurVM.Snapshot.RootSnapshotList, NoRef)
    /\ pc' = "crawl"
    /\ UNCHANGED <<call, vms, cfg, clockEnd, now, vmsWithSnapshots, vmIdx,
                   snapshotSets,
                   nagiosExitState, globalLevel>>

\* the removals of an iteration made on vmAllDiskFileKeys itself
AfterNodeShared(allDiskKeys, keys) == keys.remainingDiskFiles

\* vmAllDiskFileKeys after an iteration of crawlFunc's loop: the removals
\* are made on the copies remainingDiskFiles and snapshotDiskFileKeys
AfterNode(allDiskKeys, keys) == allDiskKeys

\* one iteration of crawlFunc's loop, up to and including the recursive call
CrawlNode ==
    /\ pc = "crawl"
    /\ stack # <<>>
    /\ LET top == stack[Len(stack)]
       IN  /\ top.i <= Len(top.snapTrees)
           /\ CurVM.Snapshot.CurrentSnapshot # NoRef
           /\ \E d1 \in 0..MaxElapsed, d2 \in 0..MaxElapsed :
                LET t1 == now + d1
                    t2 == t1 + d2
                    snapTree == top.snapTrees[top.i]
                    keys == NodeKeys(CurVM, vmAllDiskFileKeys, snapTree, top.parent)
                    snapshotSize == NodeSize(fileKeyMap, keys)
                    rest == [stack EXCEPT ![Len(stack)].i = @ + 1]
                IN  /\ t2 <= clockEnd
                    /\ now' = t2
                    /\ locals' = Append(locals, [keys |-> keys, now1 |-> t1, now2 |-> t2])
                    /\ snapshots' = Append(snapshots,
                          NewSnapshotSummary(CurVM, snapTree, snapshotSize, t1, t2,
                              cfg.SnapshotsAgeCritical, cfg.SnapshotsAgeWarning,
                              cfg.SnapshotsSizeCritical, cfg.SnapshotsSizeWarning))
                    /\ stack' = IF snapTree.ChildSnapshotList # <<>>
                                THEN crawlFunc(rest, snapTree.ChildSnapshotList,
                                               snapTree.Snapshot)
                                ELSE rest
                    /\ vmAllDiskFileKeys' = AfterNode(vmAllDiskFileKeys, keys)
    /\ UNCHANGED <<call, vms, cfg, clockEnd, pc, vmsWithSnapshots, vmIdx,
                   fileKeyMap, snapshotSets,
                   nagiosExitState, globalLevel>>

\* crawlFunc dereferences vm.Snapshot.CurrentSnapshot for every node: a nil
\* pointer aborts the run
CrawlPanic ==
    /\ pc = "crawl"
    /\ stack # <<>>
    /\ stack[Len(stack)].i <= Len(stack[Len(stack)].snapTrees)
    /\ CurVM.Snapshot.CurrentSnapshot = NoRef
    /\ pc' = "panic"
    /\ UNCHANGED <<call, vms, cfg, clockEnd, now, vmsWithSnapshots, vmIdx,
                   vmAllDiskFileKeys, fileKeyMap, stack, snapshots, locals,
                   snapshotSets,
                   nagiosExitState, globalLevel>>

\* crawlFunc's loop is over: return to the caller's loop
CrawlReturn ==
    /\ pc = "crawl"
    /\ stack # <<>>
    /\ stack[Len(stack)].i > Len(stack[Len(stack)].snapTrees)
    /\ stack' = SubSeq(stack, 1, Len(stack) - 1)
    /\ UNCHANGED <<call, vms, cfg, clockEnd, now, pc, vmsWithSnapshots,
                   vmIdx, vmAllDiskFileKeys, fileKeyMap, snapshots, locals,
                   snapshotSets,
                   nagiosExitState, globalLevel>>

\* NewSnapshotSummarySet after the crawl, and main's append
FinishSet ==
    /\ pc = "crawl"
    /\ stack = <<>>
    /\ snapshotSets' = Append(snapshotSets,
          NewSet(CurVM, snapshots, cfg.SnapshotsSizeCritical, cfg.SnapshotsSizeWarning))
    /\ vmIdx' = vmIdx + 1
    /\ pc' = "loop"
    /\ UNCHANGED <<call, vms, cfg, clockEnd, now, vmsWithSnapshots,
                   vmAllDiskFileKeys, fileKeyMap, stack, snapshots, locals,
                   nagiosExitState, globalLevel>>

\* nagios.StateOKExitCode, StateWARNINGExitCode, StateCRITICALExitCode
StateOKExitCode == 0

StateWARNINGExitCode == 1

StateCRITICALExitCode == 2

\* main's switch with the warning case tried first
ExitStatusCodeWarningFirst(sss) ==
    CASE IsAgeWarningState(sss) -> StateWARNINGExitCode
      [] ~IsAgeWarningState(sss) /\ IsAgeCriticalState(sss) -> StateCRITICALExitCode
      [] OTHER -> StateOKExitCode

\* main's switch over the collection: the ExitStatusCode of the case taken
ExitStatusCode(sss) ==
    CASE IsAgeCriticalState(sss) -> StateCRITICALExitCode
      [] ~IsAgeCriticalState(sss) /\ IsAgeWarningState(sss) -> StateWARNINGExitCode
      [] OTHER -> StateOKExitCode

\* main's loop over vmsWithSnapshots is over: the switch sets the exit state
\* and main returns
EndLoop ==
    /\ pc = "loop"
    /\ vmIdx > Len(vmsWithSnapshots)
    /\ nagiosExitState' = [nagiosExitState EXCEPT
                               !.ExitStatusCode = ExitStatusCode(snapshotSets)]
    /\ pc' = "done"
    /\ UNCHANGED <<call, vms, cfg, clockEnd, now, vmsWithSnapshots, vmIdx,
                   vmAllDiskFileKeys, fileKeyMap, stack, snapshots, locals,
                   snapshotSets, globalLevel>>

\* SnapshotSummarySets.ExceedsAge called on the finished collection with one
\* of the configured thresholds; the clock is read as the call is made
CallSetsExceedsAge ==
    /\ pc = "done"
    /\ call = NoCall
    /\ \E days \in {cfg.SnapshotsAgeWarning, cfg.SnapshotsAgeCritical},
          clock \in now..clockEnd :
          /\ now' = clock
          /\ call' = [fn |-> "SnapshotSummarySets.ExceedsAge", days |-> days,
                      clock |-> clock, returned |-> TRUE,
                      result |-> SetsExceedsAge(snapshotSets, days, clock)]
    /\ UNCHANGED <<vms, cfg, clockEnd, pc, vmsWithSnapshots, vmIdx,
                   vmAllDiskFileKeys, fileKeyMap, stack, snapshots, locals,
                   snapshotSets, nagiosExitState, globalLevel>>

\* SnapshotSummarySets.ExceedsSize called on the finished collection with
\* one of the configured thresholds
CallSetsExceedsSize ==
    /\ pc = "done"
    /\ call = NoCall
    /\ \E sizeGB \in {cfg.SnapshotsSizeWarning, cfg.SnapshotsSizeCritical} :
          call' = [fn |-> "SnapshotSummarySets.ExceedsSize", sizeGB |-> sizeGB,
                   returned |-> TRUE,
                   result |-> SetsExceedsSize(snapshotSets, sizeGB)]
    /\ UNCHANGED <<vms, cfg, clockEnd, now, pc, vmsWithSnapshots, vmIdx,
                   vmAllDiskFileKeys, fileKeyMap, stack, snapshots, locals,
                   snapshotSets, nagiosExitState, globalLevel>>

\* the one-line summaries called on the finished collection: each is called
\* once, in either order
NoSummaries ==
    [fn |-> "OneLineCheckSummary", returned |-> FALSE,
     ageReturned |-> FALSE, age |-> [case |-> "none"], clock |-> 0,
     sizeReturned |-> FALSE, size |-> [case |-> "none"]]

\* SnapshotsAgeOneLineCheckSummary asking ExceedsAge for the critical
\* threshold in both cases
SnapshotsAgeOneLineCheckSummaryCriticalOnly(sss, snapshotsAgeCritical, snapshotsAgeWarning, clock) ==
    CASE IsAgeCriticalState(sss) ->
            [case |-> "critical", days |-> snapshotsAgeCritical,
             vms |-> SetsExceedsAge(sss, snapshotsAgeCritical, clock)[1],
             snapshots |-> SetsExceedsAge(sss, snapshotsAgeCritical, clock)[2]]
      [] ~IsAgeCriticalState(sss) /\ IsAgeWarningState(sss) ->
            [case |-> "warning", days |-> snapshotsAgeCritical,
             vms |-> SetsExceedsAge(sss, snapshotsAgeCritical, clock)[1],
             snapshots |-> SetsExceedsAge(sss, snapshotsAgeCritical, clock)[2]]
      [] OTHER ->
            [case |-> "default", days |-> snapshotsAgeWarning,
             vms |-> 0, snapshots |-> 0]

\* SnapshotsAgeOneLineCheckSummary: the case taken and the numbers formatted
\* into the line; clock is the reading of time.Now() inside ExceedsAge
SnapshotsAgeOneLineCheckSummary(sss, snapshotsAgeCritical, snapshotsAgeWarning, clock) ==
    CASE IsAgeCriticalState(sss) ->
            [case |-> "critical", days |-> snapshotsAgeCritical,
             vms |-> SetsExceedsAge(sss, snapshotsAgeCritical, clock)[1],
             snapshots |-> SetsExceedsAge(sss, snapshotsAgeCritical, clock)[2]]
      [] ~IsAgeCriticalState(sss) /\ IsAgeWarningState(sss) ->
            [case |-> "warning", days |-> snapshotsAgeWarning,
             vms |-> SetsExceedsAge(sss, snapshotsAgeWarning, clock)[1],
             snapshots |-> SetsExceedsAge(sss, snapshotsAgeWarning, clock)[2]]
      [] OTHER ->
            [case |-> "default", days |-> snapshotsAgeWarning,
             vms |-> 0, snapshots |-> 0]

\* SnapshotsSizeOneLineCheckSummary: the case taken and the numbers
\* formatted into the line
SnapshotsSizeOneLineCheckSummary(sss, snapshotsSizeCritical, snapshotsSizeWarning) ==
    CASE IsSizeCriticalState(sss) ->
            [case |-> "critical", sizeGB |-> snapshotsSizeCritical,
             vms |-> SetsExceedsSize(sss, snapshotsSizeCritical)[1],
             snapshots |-> SetsExceedsSize(sss, snapshotsSizeCritical)[2]]
      [] ~IsSizeCriticalState(sss) /\ IsSizeWarningState(sss) ->
            [case |-> "warning", sizeGB |-> snapshotsSizeWarning,
             vms |-> SetsExceedsSize(sss, snapshotsSizeWarning)[1],
             snapshots |-> SetsExceedsSize(sss, snapshotsSizeWarning)[2]]
      [] OTHER ->
            [case |-> "default", sizeGB |-> snapshotsSizeWarning,
             vms |-> 0, snapshots |-> 0]

\* SnapshotsAgeOneLineCheckSummary called with the thresholds of the
\* configuration; the clock has not gone back since the sets were built
CallSnapshotsAgeOneLineCheckSummary ==
    /\ pc = "done"
    /\ call = NoCall \/ (call.fn = "OneLineCheckSummary" /\ ~call.ageReturned)
    /\ \E clock \in now..clockEnd :
          /\ now' = clock
          /\ call' = [(IF call = NoCall THEN NoSummaries ELSE call) EXCEPT
                         !.ageReturned = TRUE,
                         !.clock = clock,
                         !.age = SnapshotsAgeOneLineCheckSummary(
                                     snapshotSets, cfg.SnapshotsAgeCritical,
                                     cfg.SnapshotsAgeWarning, clock)]
    /\ UNCHANGED <<vms, cfg, clockEnd, pc, vmsWithSnapshots, vmIdx,
                   vmAllDiskFileKeys, fileKeyMap, stack, snapshots, locals,
                   snapshotSets, nagiosExitState, globalLevel>>

\* SnapshotsSizeOneLineCheckSummary called with the thresholds of the
\* configuration
CallSnapshotsSizeOneLineCheckSummary ==
    /\ pc = "done"
    /\ call = NoCall \/ (call.fn = "OneLineCheckSummary" /\ ~call.sizeReturned)
    /\ call' = [(IF call = NoCall THEN NoSummaries ELSE call) EXCEPT
                   !.sizeReturned = TRUE,
                   !.size = SnapshotsSizeOneLineCheckSummary(
                               snapshotSets, cfg.SnapshotsSizeCritical,
                               cfg.SnapshotsSizeWarning)]
    /\ UNCHANGED <<vms, cfg, clockEnd, now, pc, vmsWithSnapshots, vmIdx,
                   vmAllDiskFileKeys, fileKeyMap, stack, snapshots, locals,
                   snapshotSets, nagiosExitState, globalLevel>>

\* the unitName SnapshotsAgeReport and SnapshotsSizeReport hand in
snapshotThresholdTypeAge == "age"

snapshotThresholdTypeSize == "size"

\* SnapshotSummarySets.HasNotYetExceededAge; clock is the reading of
\* time.Now() inside ExceedsAge
HasNotYetExceededAge(sss, days, clock) ==
    \E s \in DOMAIN sss : \E i \in DOMAIN sss[s].Snapshots :
        ~ExceedsAge(sss[s].Snapshots[i].createTime, days, clock)

\* SnapshotSummarySets.HasNotYetExceededSize
HasNotYetExceededSize(sss, sizeGB) ==
    \E s \in DOMAIN sss : ~ExceedsSize(SetSize(sss[s]), Int64Of(sizeGB))

\* the entries <<s, i>> a loop over the sets and their snapshots writes for
\* the snapshots that satisfy keep, sets from s on
RECURSIVE ListEntries(_, _, _)
ListEntries(sss, keep(_, _), s) ==
    IF s > Len(sss) THEN <<>>
    ELSE SelectSeq([i \in DOMAIN sss[s].Snapshots |-> <<s, i>>],
                   LAMBDA e : keep(s, e[2]))
         \o ListEntries(sss, keep, s + 1)

\* writeSnapshotsListEntries: the entries written under each of its two
\* headings, "* None detected" being no entry
writeSnapshotsListEntries(snapshotCriticalThreshold, snapshotWarningThreshold, unitName, sss, clock) ==
    LET snapFlagged(s, i) == \/ sss[s].Snapshots[i].ageCriticalState
                             \/ sss[s].Snapshots[i].ageWarningState
        setFlagged(s, i) == \/ SetIsSizeWarningState(sss[s])
                            \/ SetIsSizeCriticalState(sss[s])
        snapNotFlagged(s, i) == ~snapFlagged(s, i)
        setNotFlagged(s, i) == ~setFlagged(s, i)
    IN  [exceeding |->
            CASE unitName = snapshotThresholdTypeAge
                   /\ (IsAgeCriticalState(sss) \/ IsAgeWarningState(sss)) ->
                     ListEntries(sss, snapFlagged, 1)
              [] unitName = snapshotThresholdTypeSize
                   /\ (IsSizeCriticalState(sss) \/ IsSizeWarningState(sss)) ->
                     ListEntries(sss, setFlagged, 1)
              [] OTHER -> <<>>,
         notYetExceeding |->
            CASE unitName = snapshotThresholdTypeAge
                   /\ HasNotYetExceededAge(sss, snapshotWarningThreshold, clock) ->
                     ListEntries(sss, snapNotFlagged, 1)
              [] unitName = snapshotThresholdTypeSize
                   /\ HasNotYetExceededSize(sss, snapshotWarningThreshold) ->
                     ListEntries(sss, setNotFlagged, 1)
              [] OTHER -> <<>>]

\* SnapshotsAgeReport or SnapshotsSizeReport writing the list for the
\* finished collection, some time after the sets were built
CallWriteSnapshotsListEntries ==
    /\ pc = "done"
    /\ call = NoCall
    /\ \E unitName \in {snapshotThresholdTypeAge, snapshotThresholdTypeSize},
          clock \in now..clockEnd :
          /\ now' = clock
          /\ call' = [fn |-> "writeSnapshotsListEntries", unitName |-> unitName,
                      clock |-> clock, returned |-> TRUE,
                      result |->
                          IF unitName = snapshotThresholdTypeAge
                          THEN writeSnapshotsListEntries(
                                   cfg.SnapshotsAgeCritical, cfg.SnapshotsAgeWarning,
                                   unitName, snapshotSets, clock)
                          ELSE writeSnapshotsListEntries(
                                   cfg.SnapshotsSizeCritical, cfg.SnapshotsSizeWarning,
                                   unitName, snapshotSets, clock)]
    /\ UNCHANGED <<vms, cfg, clockEnd, pc, vmsWithSnapshots, vmIdx,
                   vmAllDiskFileKeys, fileKeyMap, stack, snapshots, locals,
                   snapshotSets, nagiosExitState, globalLevel>>

----------------------------------------------------------------------------
(* The inventories the model is run on.                                    *)

\* one virtual disk whose chain has one link per file key
DisksOf(keys) ==
    IF keys = <<>> THEN <<>>
    ELSE <<[Chain |-> [j \in 1..Len(keys) |-> [FileKey |-> <<keys[j]>>]]]>>

\* parent of each node, NoRef for a root; node i's parent is a node before i
ParentArrays(n) == {p \in [1..n -> 0..n] : \A i \in 1..n : p[i] < i}

\* the trees of the nodes >= from whose parent is q, in node order
RECURSIVE TreeList(_, _, _, _)
TreeList(p, times, q, from) ==
    IF from > Len(p) THEN <<>>
    ELSE (IF p[from] = q
          THEN <<[Snapshot |-> from,
                  CreateTime |-> times[from],
                  ChildSnapshotList |-> TreeList(p, times, from, from + 1)]>>
          ELSE <<>>) \o TreeList(p, times, q, from + 1)

NoEntry == [has |-> FALSE, DataKey |-> 0, keys |-> <<>>]

Entry(dataKey, keys) == [has |-> TRUE, DataKey |-> dataKey, keys |-> keys]

\* vm.LayoutEx.Snapshot: the entries of the nodes that have one
RECURSIVE SnapshotLayout(_, _)
SnapshotLayout(entries, from) ==
    IF from > Len(entries) THEN <<>>
    ELSE (IF entries[from].has
          THEN <<[Key |-> from,
                  DataKey |-> entries[from].DataKey,
                  Disk |-> DisksOf(entries[from].keys)]>>
          ELSE <<>>) \o SnapshotLayout(entries, from + 1)

\* a machine with snapshot forest p, current snapshot cur (NoRef: nil)
MkVM(name, p, cur, times, entries, diskKeys, files) ==
    [Name |-> name,
     Snapshot |-> [IsNil |-> FALSE,
                   CurrentSnapshot |-> cur,
                   RootSnapshotList |-> TreeList(p, times, NoRef, 1)],
     LayoutEx |-> [File |-> files,
                   Disk |-> DisksOf(diskKeys),
                   Snapshot |-> SnapshotLayout(entries, 1)]]

\* a machine without snapshot information (vm.Snapshot == nil), or with a
\* nil RootSnapshotList
BareVM(name, isNil) ==
    [Name |-> name,
     Snapshot |-> [IsNil |-> isNil, CurrentSnapshot |-> NoRef,
                   RootSnapshotList |-> <<>>],
     LayoutEx |-> [File |-> <<>>, Disk |-> DisksOf(<<1>>), Snapshot |-> <<>>]]

Config(ageCritical, ageWarning, sizeCritical, sizeWarning) ==
    [SnapshotsAgeCritical |-> ageCritical, SnapshotsAgeWarning |-> ageWarning,
     SnapshotsSizeCritical |-> sizeCritical, SnapshotsSizeWarning |-> sizeWarning]

(* Family A: one machine, every forest of up to MaxSnapshots nodes, every  *)
(* current snapshot, every combination of layout entries over two disk     *)
(* file keys (with and without repeated keys) and one data key per node;   *)
(* the run is over within the second it started in.                        *)

KeyListsA == {<<>>, <<1>>, <<1, 2>>, <<2, 1>>, <<1, 1>>}

DataKeyA(i) == 2 + i

\* file sizes 1, 5, 25, ... bytes: a sum tells which keys it counts
RECURSIVE FilesA(_)
FilesA(k) ==
    IF k = 0 THEN <<>>
    ELSE Append(FilesA(k - 1), [Key |-> k, Size |-> Bytes(0, 5 ^ (k - 1))])

\* node i was created exactly i days before the run starts
TimesA(n) == [i \in 1..n |-> StartTime - i * Day]

ConfigA == Config(2, 1, 2, 1)

\* the layout entry of a node: none, or its data key and these disk keys;
\* forests of more than two nodes take the lists without repetition
ChoicesA(n) ==
    {[has |-> FALSE, keys |-> <<>>]} \cup
    {[has |-> TRUE, keys |-> l] :
        l \in IF n <= 2 THEN KeyListsA
              ELSE IF n = 3 THEN {<<1>>, <<1, 2>>} ELSE {<<1, 2>>}}

EntriesA(c) ==
    [i \in DOMAIN c |-> IF c[i].has THEN Entry(DataKeyA(i), c[i].keys) ELSE NoEntry]

InitA ==
    \E n \in 1..MaxSnapshots :
      \E p \in ParentArrays(n), cur \in 0..n, c \in [1..n -> ChoicesA(n)],
         diskKeys \in KeyListsA :
        /\ vms = <<MkVM(1, p, cur, TimesA(n), EntriesA(c), diskKeys, FilesA(2 + n))>>
        /\ cfg = ConfigA
        /\ clockEnd = StartTime

(* Family B: up to MaxVMs machines, each without snapshots or with a chain *)
(* of one or two snapshots laid out as vSphere lays them out: file 1 is    *)
(* the base disk, file i + 1 the delta disk written after snapshot i, file *)
(* 10 + i the data file of snapshot i, and the last snapshot is current.   *)
(* Creation times and sizes sit on and around the thresholds.              *)

\* most machines of one run
MaxVMs == 2

Node(t, sz) == [t |-> t, sz |-> sz]

RECURSIVE ChainFiles(_, _)
ChainFiles(nodes, i) ==
    IF i > Len(nodes) THEN <<>>
    ELSE <<[Key |-> IF i = 1 THEN 11 ELSE i, Size |-> nodes[i].sz]>>
         \o ChainFiles(nodes, i + 1)

ChainVM(name, nodes, drift) ==
    LET n == Len(nodes)
    IN  MkVM(name,
             [i \in 1..n |-> i - 1],
             n,
             [i \in 1..n |-> nodes[i].t],
             [i \in 1..n |-> Entry(10 + i, [j \in 1..i |-> j])],
             [j \in 1..(n + 1) |-> j],
             <<[Key |-> 1, Size |-> Bytes(5, 0)]>> \o ChainFiles(nodes, 1)
                 \o <<[Key |-> n + 1, Size |-> drift]>>)

Fresh == StartTime - 10

NodesB ==
    { Node(Fresh, Bytes(2, 0)), Node(Fresh, Bytes(2, 1)),
      Node(Fresh, Bytes(3, 0)), Node(Fresh, Bytes(3, 1)),
      Node(StartTime - Day, Bytes(0, 1)),
      Node(StartTime - Day - 1, Bytes(0, 1)),
      Node(StartTime - 2 * Day - 1, Bytes(0, 1)) }

NodesB2 ==
    { Node(Fresh, Bytes(2, 0)), Node(Fresh, Bytes(2, 1)),
      Node(StartTime - Day, Bytes(0, 1)),
      Node(StartTime - Day - 1, Bytes(0, 1)),
      Node(StartTime - 2 * Day - 1, Bytes(0, 1)) }

\* the machines that may stand at position name of the inventory; those
\* past the second come from a smaller choice
VMsB(name) ==
    IF name <= 2
    THEN {BareVM(name, TRUE), BareVM(name, FALSE)}
         \cup {ChainVM(name, <<a>>, Zero) : a \in NodesB}
         \cup {ChainVM(name, <<a, b>>, Zero) : a \in NodesB2, b \in NodesB2}
    ELSE {BareVM(name, FALSE),
          ChainVM(name, <<Node(Fresh, Bytes(2, 1))>>, Zero),
          ChainVM(name, <<Node(StartTime - Day - 1, Bytes(0, 1))>>, Zero)}

\* the last one has its age thresholds equal
ConfigsB == {Config(2, 1, 3, 2), Config(2, 1, 4, 2), Config(1, 1, 3, 2)}

RECURSIVE VMListsB(_)
VMListsB(n) ==
    IF n = 0 THEN {<<>>}
    ELSE {Append(l, vm) : l \in VMListsB(n - 1), vm \in VMsB(n)}

InitB ==
    \E n \in 0..MaxVMs :
      /\ vms \in VMListsB(n)
      /\ cfg \in ConfigsB
      /\ clockEnd \in IF n <= 1 THEN StartTime..(StartTime + MaxElapsed)
                      ELSE {StartTime}

(* The machine M of the end-to-end scenario: root S1 created 40 days ago   *)
(* with 2 GB of its own, its active child S2 created 5 days ago with 1 GB  *)
(* of its own and 0.5 GB written since.                                    *)

ScenarioVM ==
    ChainVM(1, <<Node(StartTime - 40 * Day, Bytes(2, 0)),
                 Node(StartTime - 5 * Day, Bytes(1, 0))>>,
            Bytes(0, GB \div 2))

ScenarioConfig == Config(60, 30, 20, 10)

InitScenario ==
    /\ vms = <<ScenarioVM>>
    /\ cfg = ScenarioConfig
    /\ clockEnd = StartTime

Init ==
    /\ InitA \/ InitB \/ InitScenario
    /\ call = NoCall
    /\ now = StartTime
    /\ pc = "filter"
    /\ vmsWithSnapshots = <<>>
    /\ vmIdx = 0
    /\ vmAllDiskFileKeys = <<>>
    /\ fileKeyMap = <<>>
    /\ stack = <<>>
    /\ snapshots = <<>>
    /\ locals = <<>>
    /\ snapshotSets = <<>>
    /\ nagiosExitState = [ExitStatusCode |-> StateOKExitCode]
    /\ globalLevel = loggingLevels[LogLevelInfo]

Next ==
    \/ FilterVMs
    \/ BeginSet
    \/ CrawlNode
    \/ CrawlPanic
    \/ CrawlReturn
    \/ FinishSet
    \/ EndLoop
    \/ CallSetsExceedsAge
    \/ CallSetsExceedsSize
    \/ CallSnapshotsAgeOneLineCheckSummary
    \/ CallSnapshotsSizeOneLineCheckSummary
    \/ CallWriteSnapshotsListEntries

Spec == Init /\ [][Next]_vars

----------------------------------------------------------------------------
(* ExceedsSize and SnapshotSummary.IsSizeExceeded called on arguments of   *)
(* their own: sizes and thresholds from zero to the ends of the int64      *)
(* range.                                                                  *)

SizeArgs ==
    { Bytes(0, 0), Bytes(0, 1), Bytes(1, 0), Bytes(1, 1), Bytes(2, 0),
      Bytes(2, 1), Bytes(3, 0), Bytes(GB - 1, GB - 1), Int64(1, 0, 0),
      Int64(7, GB - 1, 0), Int64(7, GB - 1, 1), Int64(7, GB - 1, GB - 1) }

\* thresholds in GB: 0, 1, 2, 3, 2^30 - 1, 2^33 - 1, 2^33, 2^34, 2^60
ThresholdArgs ==
    { Int64(0, 0, 0), Int64(0, 0, 1), Int64(0, 0, 2), Int64(0, 0, 3),
      Int64(0, 0, GB - 1), Int64(0, 7, GB - 1), Int64(0, 8, 0),
      Int64(0, 16, 0), Int64(1, 0, 0) }

InitExceedsSize ==
    /\ \/ \E snapshotSize \in SizeArgs, thresholdSize \in ThresholdArgs :
             call = [fn |-> "ExceedsSize", snapshotSize |-> snapshotSize,
                     thresholdSize |-> thresholdSize,
                     returned |-> FALSE, result |-> FALSE]
       \/ \E size \in SizeArgs, sizeGB \in 0..3 :
             call = [fn |-> "IsSizeExceeded", ss |-> [Size |-> size],
                     sizeGB |-> sizeGB,
                     returned |-> FALSE, result |-> FALSE]
    /\ vms = <<>>
    /\ cfg = ConfigA
    /\ clockEnd = StartTime
    /\ now = StartTime
    /\ pc = "call"
    /\ vmsWithSnapshots = <<>>
    /\ vmIdx = 0
    /\ vmAllDiskFileKeys = <<>>
    /\ fileKeyMap = <<>>
    /\ stack = <<>>
    /\ snapshots = <<>>
    /\ locals = <<>>
    /\ snapshotSets = <<>>
    /\ nagiosExitState = [ExitStatusCode |-> StateOKExitCode]
    /\ globalLevel = loggingLevels[LogLevelInfo]

CallExceedsSize ==
    /\ call.fn = "ExceedsSize"
    /\ ~call.returned
    /\ call' = [call EXCEPT
                   !.result = ExceedsSize(call.snapshotSize, call.thresholdSize),
                   !.returned = TRUE]
    /\ UNCHANGED <<vms, cfg, clockEnd, now, pc, vmsWithSnapshots, vmIdx,
                   vmAllDiskFileKeys, fileKeyMap, stack, snapshots, locals,
                   snapshotSets,
                   nagiosExitState, globalLevel>>

CallIsSizeExceeded ==
    /\ call.fn = "IsSizeExceeded"
    /\ ~call.returned
    /\ call' = [call EXCEPT
                   !.result = IsSizeExceeded(call.ss, call.sizeGB),
                   !.returned = TRUE]
    /\ UNCHANGED <<vms, cfg, clockEnd, now, pc, vmsWithSnapshots, vmIdx,
                   vmAllDiskFileKeys, fileKeyMap, stack, snapshots, locals,
                   snapshotSets,
                   nagiosExitState, globalLevel>>

NextExceedsSize == CallExceedsSize \/ CallIsSizeExceeded

SpecExceedsSize == InitExceedsSize /\ [][NextExceedsSize]_vars

----------------------------------------------------------------------------
(* setLoggingLevel called, as Config.setupLogging calls it, with level     *)
(* names that are documented and with strings that are not, one call after *)
(* another and from every global level.                                    *)

LevelNames ==
    {LogLevelDisabled, LogLevelPanic, LogLevelFatal, LogLevelError,
     LogLevelWarn, LogLevelInfo, LogLevelDebug, LogLevelTrace}

LoggingLevelArgs ==
    LevelNames \cup {"", "INFO", "Info", "warning", "information", "verbose",
                     "trace ", "none"}

InitLogging ==
    /\ globalLevel \in {loggingLevels[name] : name \in LevelNames}
    /\ call = [fn |-> "setLoggingLevel", logLevel |-> "", before |-> globalLevel,
               returned |-> FALSE, err |-> NoError]
    /\ vms = <<>>
    /\ cfg = ConfigA
    /\ clockEnd = StartTime
    /\ now = StartTime
    /\ pc = "call"
    /\ vmsWithSnapshots = <<>>
    /\ vmIdx = 0
    /\ vmAllDiskFileKeys = <<>>
    /\ fileKeyMap = <<>>
    /\ stack = <<>>
    /\ snapshots = <<>>
    /\ locals = <<>>
    /\ snapshotSets = <<>>
    /\ nagiosExitState = [ExitStatusCode |-> StateOKExitCode]

\* setupLogging: if err := setLoggingLevel(c.LoggingLevel); err != nil { ... }
CallSetLoggingLevel ==
    /\ call.fn = "setLoggingLevel"
    /\ \E logLevel \in LoggingLevelArgs :
          LET got == setLoggingLevel(logLevel, globalLevel)
          IN  /\ globalLevel' = got.globalLevel
              /\ call' = [fn |-> "setLoggingLevel", logLevel |-> logLevel,
                          before |-> globalLevel, returned |-> TRUE,
                          err |-> got.err]
    /\ UNCHANGED <<vms, cfg, clockEnd, now, pc, vmsWithSnapshots, vmIdx,
                   vmAllDiskFileKeys, fileKeyMap, stack, snapshots, locals,
                   snapshotSets, nagiosExitState>>

NextLogging == CallSetLoggingLevel

SpecLogging == InitLogging /\ [][NextLogging]_vars

----------------------------------------------------------------------------
(* Triggered alarms (check_vmware_alarms).  The package's tests give the   *)
(* alarms, the filters and the keys expected after filtering;              *)
(* TriggeredAlarms.Filter and TriggeredAlarms.Keys are modelled after what *)
(* those tests expect of them.  Names and descriptions are kept as lists   *)
(* of words; a filter matches a text when its words, case set aside, stand *)
(* in a row in the text.                                                   *)

\* most patterns in the lists of one TriggeredAlarmFilters value
MaxPatterns == 3

TriggeredAlarm(key, rank, type, name, description, status, acknowledged) ==
    [Key |-> key, rank |-> rank, EntityType |-> type, Name |-> name,
     Description |-> description, OverallStatus |-> status,
     Acknowledged |-> acknowledged, Excluded |-> FALSE]

DatastoreUsage == <<"Datastore", "usage", "on", "disk">>

DatastoreUsageDescription ==
    <<"Default", "alarm", "to", "monitor", "datastore", "disk", "usage">>

\* the five triggered alarms of the tests; rank is the place of the key
\* among the keys sorted without regard to case
getTestTriggeredAlarms ==
    << TriggeredAlarm("alarm-8.datastore-50120", 5, "Datastore", DatastoreUsage,
                      DatastoreUsageDescription, "yellow", TRUE),
       TriggeredAlarm("alarm-8.datastore-50119", 4, "Datastore", DatastoreUsage,
                      DatastoreUsageDescription, "yellow", FALSE),
       TriggeredAlarm("alarm-8.datastore-141490", 3, "Datastore", DatastoreUsage,
                      DatastoreUsageDescription, "red", FALSE),
       TriggeredAlarm("alarm-6.vm-197", 1, "VirtualMachine",
                      <<"Virtual", "machine", "CPU", "usage">>,
                      <<"Default", "alarm", "to", "monitor", "virtual", "machine",
                        "CPU", "usage">>, "red", FALSE),
       TriggeredAlarm("alarm-7.vm-197", 2, "VirtualMachine",
                      <<"Virtual", "machine", "memory", "usage">>,
                      <<"Default", "alarm", "to", "monitor", "virtual", "machine",
                        "memory", "usage">>, "red", FALSE) >>

\* strings.ToLower of a word
ToLower(w) ==
    CASE w = "Datastore" -> "datastore"
      [] w = "Virtual" -> "virtual"
      [] w = "VirtualMachine" -> "virtualmachine"
      [] w = "CPU" -> "cpu"
      [] w = "Default" -> "default"
      [] OTHER -> w

\* the words of pattern stand in a row in text, case set aside
ContainsFold(text, pattern) ==
    \E at \in 0..(Len(text) - Len(pattern)) :
        \A j \in 1..Len(pattern) : ToLower(text[at + j]) = ToLower(pattern[j])

EqualFold(a, b) == ToLower(a) = ToLower(b)

\* the alarm matches one of the patterns of the four lists of one side
MatchesAny(ta, types, names, descriptions, statuses) ==
    \/ \E t \in types : EqualFold(ta.EntityType, t)
    \/ \E n \in names : ContainsFold(ta.Name, n)
    \/ \E d \in descriptions : ContainsFold(ta.Description, d)
    \/ \E st \in statuses : EqualFold(ta.OverallStatus, st)

MatchesIncluded(ta, f) ==
    MatchesAny(ta, f.IncludedAlarmEntityTypes, f.IncludedAlarmNames,
               f.IncludedAlarmDescriptions, f.IncludedAlarmStatuses)

MatchesExcluded(ta, f) ==
    MatchesAny(ta, f.ExcludedAlarmEntityTypes, f.ExcludedAlarmNames,
               f.ExcludedAlarmDescriptions, f.ExcludedAlarmStatuses)

\* no list of inclusions is given
NoInclusions(f) ==
    /\ f.IncludedAlarmEntityTypes = {} /\ f.IncludedAlarmNames = {}
    /\ f.IncludedAlarmDescriptions = {} /\ f.IncludedAlarmStatuses = {}

\* Filter letting an explicit inclusion stand against an exclusion
FilterInclusionFirst(tas, f) ==
    [i \in DOMAIN tas |->
        [tas[i] EXCEPT !.Excluded =
            IF NoInclusions(f) THEN MatchesExcluded(tas[i], f)
            ELSE ~MatchesIncluded(tas[i], f)]]

\* TriggeredAlarms.Filter: the alarms with their exclusion marks set.  With
\* inclusions given, an alarm matching none of them is excluded; an alarm
\* matching an exclusion is excluded whatever it is included by
Filter(tas, f) ==
    [i \in DOMAIN tas |->
        [tas[i] EXCEPT !.Excluded =
            \/ MatchesExcluded(tas[i], f)
            \/ ~NoInclusions(f) /\ ~MatchesIncluded(tas[i], f)]]

\* the elements of the set of alarms S, by rank
RECURSIVE SortedKeys(_)
SortedKeys(S) ==
    IF S = {} THEN <<>>
    ELSE LET first == CHOOSE ta \in S : \A other \in S : ta.rank <= other.rank
         IN  <<first.Key>> \o SortedKeys(S \ {first})

\* TriggeredAlarms.Keys(evalAcknowledged, evalExcluded): the sorted keys of
\* the alarms, without the acknowledged or the excluded ones unless asked
Keys(tas, evalAcknowledged, evalExcluded) ==
    SortedKeys({tas[i] : i \in {j \in DOMAIN tas :
                    /\ evalAcknowledged \/ ~tas[j].Acknowledged
                    /\ evalExcluded \/ ~tas[j].Excluded}})

TriggeredAlarmFilters(it, et, in, en, id, ed, is, es, evalAcknowledged) ==
    [IncludedAlarmEntityTypes |-> it, ExcludedAlarmEntityTypes |-> et,
     IncludedAlarmNames |-> in, ExcludedAlarmNames |-> en,
     IncludedAlarmDescriptions |-> id, ExcludedAlarmDescriptions |-> ed,
     IncludedAlarmStatuses |-> is, ExcludedAlarmStatuses |-> es,
     EvaluateAcknowledgedAlarms |-> evalAcknowledged]

\* the patterns a list may hold, per kind of list
PatternPool ==
    [EntityTypes |-> {"VirtualMachine", "Datastore"},
     Names |-> {<<"Virtual", "machine", "CPU", "usage">>, <<"memory", "usage">>,
                <<"datastore", "usage", "on", "disk">>, <<"tacos", "on", "sale">>},
     Descriptions |-> {<<"tacos", "on", "sale">>, <<"virtual", "machine">>},
     Statuses |-> {"red", "yellow"}]

\* a pattern in a list: <<included, kind, pattern>>
ValidSlots ==
    UNION {{<<incl, kind, pattern>> : incl \in BOOLEAN, pattern \in PatternPool[kind]} :
           kind \in DOMAIN PatternPool}

\* the sets of at most n slots
RECURSIVE SlotSets(_)
SlotSets(n) ==
    IF n = 0 THEN {{}}
    ELSE LET less == SlotSets(n - 1)
         IN  less \cup {S \cup {sl} : S \in less, sl \in ValidSlots}

FiltersOf(S, evalAcknowledged) ==
    LET list(incl, kind) == {sl[3] : sl \in {x \in S : x[1] = incl /\ x[2] = kind}}
    IN  TriggeredAlarmFilters(
            list(TRUE, "EntityTypes"), list(FALSE, "EntityTypes"),
            list(TRUE, "Names"), list(FALSE, "Names"),
            list(TRUE, "Descriptions"), list(FALSE, "Descriptions"),
            list(TRUE, "Statuses"), list(FALSE, "Statuses"), evalAcknowledged)

InitAlarms ==
    /\ \E S \in SlotSets(MaxPatterns), evalAcknowledged \in BOOLEAN :
          call = [fn |-> "TriggeredAlarms.Filter",
                  triggeredAlarms |-> getTestTriggeredAlarms,
                  filters |-> FiltersOf(S, evalAcknowledged),
                  returned |-> FALSE, keys |-> <<>>]
    /\ globalLevel = loggingLevels[LogLevelInfo]
    /\ vms = <<>>
    /\ cfg = ConfigA
    /\ clockEnd = StartTime
    /\ now = StartTime
    /\ pc = "call"
    /\ vmsWithSnapshots = <<>>
    /\ vmIdx = 0
    /\ vmAllDiskFileKeys = <<>>
    /\ fileKeyMap = <<>>
    /\ stack = <<>>
    /\ snapshots = <<>>
    /\ locals = <<>>
    /\ snapshotSets = <<>>
    /\ nagiosExitState = [ExitStatusCode |-> StateOKExitCode]

\* triggeredAlarms.Filter(triggeredAlarmFilters), then
\* triggeredAlarms.Keys(cfg.EvaluateAcknowledgedAlarms, false)
CallFilter ==
    /\ call.fn = "TriggeredAlarms.Filter"
    /\ ~call.returned
    /\ LET filtered == Filter(call.triggeredAlarms, call.filters)
       IN  call' = [call EXCEPT
                       !.triggeredAlarms = filtered,
                       !.keys = Keys(filtered,
                                     call.filters.EvaluateAcknowledgedAlarms, FALSE),
                       !.returned = TRUE]
    /\ UNCHANGED <<vms, cfg, clockEnd, now, pc, vmsWithSnapshots, vmIdx,
                   vmAllDiskFileKeys, fileKeyMap, stack, snapshots, locals,
                   snapshotSets, nagiosExitState, globalLevel>>

NextAlarms == CallFilter

SpecAlarms == InitAlarms /\ [][NextAlarms]_vars

----------------------------------------------------------------------------
(* What the specification says of an inventory, stated on the inventory    *)
(* itself: occurrences of a file key in the disk chains, the indexed size  *)
(* of a key, the parent of a node.                                         *)

Max0(n) == IF n > 0 THEN n ELSE 0

Range(f) == {f[i] : i \in DOMAIN f}

\* the places <<d, c, j>> of the chains of disks that hold key k
DiskPlaces(disks, k) ==
    UNION { UNION { { <<d, c, j>> :
                        j \in {x \in DOMAIN disks[d].Chain[c].FileKey :
                                  disks[d].Chain[c].FileKey[x] = k} } :
                    c \in DOMAIN disks[d].Chain } :
            d \in DOMAIN disks }

DiskCount(disks, k) == Cardinality(DiskPlaces(disks, k))

DiskKeySet(disks) ==
    UNION { UNION { Range(disks[d].Chain[c].FileKey) : c \in DOMAIN disks[d].Chain } :
            d \in DOMAIN disks }

\* the layout entries of a snapshot
EntriesOf(vm, node) ==
    {e \in DOMAIN vm.LayoutEx.Snapshot : vm.LayoutEx.Snapshot[e].Key = node}

\* occurrences of k among this-snapshot-keys: the data key and the disk
\* chain keys of the node's layout entry
ThisCount(vm, node, k) ==
    Cardinality(UNION { (IF vm.LayoutEx.Snapshot[e].DataKey = k
                         THEN {<<e, 0, 0, 0>>} ELSE {})
                        \cup { <<e, pl[1], pl[2], pl[3]>> :
                                 pl \in DiskPlaces(vm.LayoutEx.Snapshot[e].Disk, k) } :
                        e \in EntriesOf(vm, node) })

\* occurrences of k among parent-disk-keys
ParentCount(vm, parent, k) ==
    Cardinality(UNION { { <<e, pl[1], pl[2], pl[3]>> :
                            pl \in DiskPlaces(vm.LayoutEx.Snapshot[e].Disk, k) } :
                        e \in EntriesOf(vm, parent) })

\* occurrences of k among all-disk-keys
AllDiskCount(vm, k) == DiskCount(vm.LayoutEx.Disk, k)

\* every file key the layout of the machine mentions
LayoutKeys(vm) ==
    DiskKeySet(vm.LayoutEx.Disk)
    \cup UNION { {vm.LayoutEx.Snapshot[e].DataKey}
                 \cup DiskKeySet(vm.LayoutEx.Snapshot[e].Disk) :
                 e \in DOMAIN vm.LayoutEx.Snapshot }

\* the size the file index holds for k: that of the last file entry with
\* that key, zero bytes when there is none
IndexedSize(vm, k) ==
    LET at == {i \in DOMAIN vm.LayoutEx.File : vm.LayoutEx.File[i].Key = k}
    IN  IF at = {} THEN Zero
        ELSE vm.LayoutEx.File[CHOOSE i \in at : \A j \in at : j <= i].Size

\* n times the byte count b
Scale(b, n) == Bytes(b[2] * n + ((b[3] * n) \div GB), (b[3] * n) % GB)

\* the sum over the keys K of count[k] times the indexed size of k
RECURSIVE WeightedSize(_, _, _)
WeightedSize(vm, K, count) ==
    IF K = {} THEN Zero
    ELSE LET k == CHOOSE x \in K : TRUE
         IN  Int64Add(Scale(IndexedSize(vm, k), count[k]),
                      WeightedSize(vm, K \ {k}, count))

\* the parent of node in the forest trees (below par), -1 when it is absent
RECURSIVE ParentIn(_, _, _)
ParentIn(trees, node, par) ==
    IF trees = <<>> THEN -1
    ELSE IF Head(trees).Snapshot = node THEN par
    ELSE LET below == ParentIn(Head(trees).ChildSnapshotList, node,
                               Head(trees).Snapshot)
         IN  IF below # -1 THEN below ELSE ParentIn(Tail(trees), node, par)

ParentOf(vm, node) == ParentIn(vm.Snapshot.RootSnapshotList, node, NoRef)

\* this-snapshot-keys minus the baseline (all-disk-keys for a root,
\* parent-disk-keys otherwise), one occurrence removed per occurrence
OwnCount(vm, node) ==
    [k \in LayoutKeys(vm) |->
        Max0(ThisCount(vm, node, k) -
             (IF ParentOf(vm, node) = NoRef THEN AllDiskCount(vm, k)
              ELSE ParentCount(vm, ParentOf(vm, node), k)))]

\* all-disk-keys minus this-snapshot-keys
DriftCount(vm, node) ==
    [k \in LayoutKeys(vm) |-> Max0(AllDiskCount(vm, k) - ThisCount(vm, node, k))]

OwnSize(vm, node) == WeightedSize(vm, LayoutKeys(vm), OwnCount(vm, node))

DriftSize(vm, node) == WeightedSize(vm, LayoutKeys(vm), DriftCount(vm, node))

\* the set reading of the same subtraction
ThisKeySet(vm, node) == {k \in LayoutKeys(vm) : ThisCount(vm, node, k) > 0}

BaselineKeySet(vm, node) ==
    IF ParentOf(vm, node) = NoRef THEN DiskKeySet(vm.LayoutEx.Disk)
    ELSE {k \in LayoutKeys(vm) : ParentCount(vm, ParentOf(vm, node), k) > 0}

OwnSetSize(vm, node) ==
    WeightedSize(vm, ThisKeySet(vm, node) \ BaselineKeySet(vm, node),
                 [k \in LayoutKeys(vm) |-> 1])

NoRepeatedKey(vm, node) == \A k \in LayoutKeys(vm) : ThisCount(vm, node, k) <= 1

\* the finished sets: set s was built from machine vmsWithSnapshots[s]
SetIds == 1..Len(snapshotSets)

SnapIds(s) == 1..Len(snapshotSets[s].Snapshots)

IsCurrent(vm, node) == node = vm.Snapshot.CurrentSnapshot

----------------------------------------------------------------------------
(* File attribution (crawlFunc).  While a machine is being crawled         *)
(* (pc = "crawl"), locals[i] holds the key lists and clock readings behind *)
(* snapshots[i].                                                           *)

NodeIds == IF pc = "crawl" THEN DOMAIN snapshots ELSE {}

\* the keys whose indexed sizes snapshots[i].Size adds up
AttributedKeys(i) ==
    Range(locals[i].keys.snapshotDiskFileKeys)
    \cup (IF locals[i].keys.active THEN Range(locals[i].keys.remainingDiskFiles)
          ELSE {})

\* files attached to the running machine that no layout entry of a snapshot
\* of the forest mentions
LiveOnlyKeys(vm) ==
    {k \in DiskKeySet(vm.LayoutEx.Disk) :
        \A i \in NodeIds : ThisCount(vm, snapshots[i].MOID, k) = 0}

C2_NonCurrentSize ==
    \A s \in SetIds : \A i \in SnapIds(s) :
        LET vm == vmsWithSnapshots[s]
            snap == snapshotSets[s].Snapshots[i]
        IN  ~IsCurrent(vm, snap.MOID)
                => /\ snap.Size = OwnSize(vm, snap.MOID)
                   /\ NoRepeatedKey(vm, snap.MOID)
                          => snap.Size = OwnSetSize(vm, snap.MOID)

\* a finished set holds a root and a child, neither current, each with keys
\* of its baseline removed, the child keeping a disk file of its own
C2_Witness ==
    \E s \in SetIds : \E i, j \in SnapIds(s) :
        LET vm == vmsWithSnapshots[s]
            root == snapshotSets[s].Snapshots[i]
            child == snapshotSets[s].Snapshots[j]
        IN  /\ ~IsCurrent(vm, root.MOID) /\ ~IsCurrent(vm, child.MOID)
            /\ ParentOf(vm, root.MOID) = NoRef
            /\ ParentOf(vm, child.MOID) # NoRef
            /\ ThisKeySet(vm, root.MOID) \cap BaselineKeySet(vm, root.MOID) # {}
            /\ ThisKeySet(vm, child.MOID) \cap BaselineKeySet(vm, child.MOID) # {}
            /\ Cardinality(ThisKeySet(vm, child.MOID)
                               \ BaselineKeySet(vm, child.MOID)) > 1
            /\ child.Size = OwnSize(vm, child.MOID)
            /\ child.Size # Zero

(* C3: the current snapshot's Size adds, to the sum of its own kept keys,  *)
(* the indexed sizes of all-disk-keys minus its this-snapshot-keys as they *)
(* were before the removal, so it includes every live-only file; the Size  *)
(* of a snapshot that is not current includes no live-only file.           *)
C3_ActiveDrift ==
    \A i \in NodeIds :
        LET node == snapshots[i].MOID
        IN  /\ IsCurrent(CurVM, node)
                => /\ snapshots[i].Size
                          = Int64Add(OwnSize(CurVM, node), DriftSize(CurVM, node))
                   /\ LiveOnlyKeys(CurVM) \subseteq AttributedKeys(i)
            /\ ~IsCurrent(CurVM, node)
                => /\ LiveOnlyKeys(CurVM) \cap AttributedKeys(i) = {}
                   /\ snapshots[i].Size = OwnSize(CurVM, node)

\* the whole forest has been crawled, the current snapshot has picked up a
\* live-only file of non-zero size and another snapshot has not
C3_Witness ==
    /\ pc = "crawl" /\ stack = <<>>
    /\ \E i, j \in NodeIds : \E k \in LiveOnlyKeys(CurVM) :
          /\ IsCurrent(CurVM, snapshots[i].MOID)
          /\ ~IsCurrent(CurVM, snapshots[j].MOID)
          /\ FileSize(fileKeyMap, k) # Zero
          /\ DriftSize(CurVM, snapshots[i].MOID) # Zero
          /\ OwnSize(CurVM, snapshots[i].MOID) # Zero
          /\ k \in AttributedKeys(i)

\* the root snapshots of a finished set that are not current and whose one
\* layout entry has the disk chains of the machine's attached disks
IsolatedRoots(s) ==
    {i \in SnapIds(s) :
        LET vm == vmsWithSnapshots[s]
            node == snapshotSets[s].Snapshots[i].MOID
        IN  /\ ParentOf(vm, node) = NoRef
            /\ ~IsCurrent(vm, node)
            /\ Cardinality(EntriesOf(vm, node)) = 1
            /\ \A e \in EntriesOf(vm, node) :
                  vm.LayoutEx.Snapshot[e].Disk = vm.LayoutEx.Disk}

(* C4, as the specification states it: a root snapshot whose layout disk   *)
(* chains are those of the attached disks, and which is not current, has   *)
(* Size zero.                                                              *)
C4_IsolatedRootZero ==
    \A s \in SetIds : \A i \in IsolatedRoots(s) :
        snapshotSets[s].Snapshots[i].Size = Zero

(* C4, amended: such a root has Size equal to the indexed size of the      *)
(* snapshot data file of its layout entry: every disk chain file is        *)
(* removed and the data key is all that is left.                           *)
C4_IsolatedRootDataFile ==
    \A s \in SetIds : \A i \in IsolatedRoots(s) :
        \A e \in EntriesOf(vmsWithSnapshots[s], snapshotSets[s].Snapshots[i].MOID) :
            snapshotSets[s].Snapshots[i].Size
                = IndexedSize(vmsWithSnapshots[s],
                              vmsWithSnapshots[s].LayoutEx.Snapshot[e].DataKey)

\* such a root, with attached disk files of non-zero size in its chains, is
\* in a finished set with a Size that is not zero
C4_Witness ==
    \E s \in SetIds : \E i \in IsolatedRoots(s) :
        /\ \E k \in DiskKeySet(vmsWithSnapshots[s].LayoutEx.Disk) :
              IndexedSize(vmsWithSnapshots[s], k) # Zero
        /\ snapshotSets[s].Snapshots[i].Size # Zero

----------------------------------------------------------------------------
(* Threshold evaluation.                                                   *)

\* s bytes are more than T GB, for an int 0 <= T < GB
MoreThanGB(s, T) ==
    s[1] > 0 \/ (s[1] = 0 /\ (s[2] > T \/ (s[2] = T /\ s[3] >= 1)))

(* C5, as the specification states it: each of the four flags of a summary *)
(* is its value evaluated against the threshold of the same kind and the   *)
(* same severity.                                                          *)
C5_FlagsMatchThresholds ==
    \A i \in NodeIds :
        LET snap == snapshots[i]
        IN  /\ snap.ageWarningState
                 = (snap.createTime < locals[i].now1 - cfg.SnapshotsAgeWarning * Day)
            /\ snap.ageCriticalState
                 = (snap.createTime < locals[i].now2 - cfg.SnapshotsAgeCritical * Day)
            /\ snap.sizeWarningState = MoreThanGB(snap.Size, cfg.SnapshotsSizeWarning)
            /\ snap.sizeCriticalState = MoreThanGB(snap.Size, cfg.SnapshotsSizeCritical)

(* C6: for ExceedsAge and SnapshotSummary.IsAgeExceeded a creation time    *)
(* exceeds N days only when it is strictly before the clock reading less   *)
(* N days: exactly N days old is not exceeded, one second older is, any    *)
(* later creation time is not.                                             *)
C6_AgeBoundary ==
    \A i \in NodeIds :
        LET snap == snapshots[i]
            warn == locals[i].now1 - cfg.SnapshotsAgeWarning * Day
            crit == locals[i].now2 - cfg.SnapshotsAgeCritical * Day
        IN  /\ snap.createTime = warn => ~snap.ageWarningState
            /\ snap.createTime = warn - 1 => snap.ageWarningState
            /\ snap.ageWarningState <=> snap.createTime <= warn - 1
            /\ snap.createTime = crit => ~snap.ageCriticalState
            /\ snap.createTime = crit - 1 => snap.ageCriticalState
            /\ snap.ageCriticalState <=> snap.createTime <= crit - 1
            /\ \A N \in {cfg.SnapshotsAgeWarning, cfg.SnapshotsAgeCritical} :
                  /\ IsAgeExceeded(snap, N, now) <=> snap.createTime <= now - N * Day - 1
                  /\ snap.createTime = now - N * Day => ~IsAgeExceeded(snap, N, now)

\* one summary was created exactly N days before the reading and is not
\* flagged, one was created a second earlier than that and is
C6_Witness ==
    /\ \E i \in NodeIds :
          \/ /\ snapshots[i].createTime
                    = locals[i].now1 - cfg.SnapshotsAgeWarning * Day
             /\ ~snapshots[i].ageWarningState
          \/ /\ snapshots[i].createTime
                    = locals[i].now2 - cfg.SnapshotsAgeCritical * Day
             /\ ~snapshots[i].ageCriticalState
    /\ \E i \in NodeIds :
          \/ /\ snapshots[i].createTime
                    = locals[i].now1 - cfg.SnapshotsAgeWarning * Day - 1
             /\ snapshots[i].ageWarningState
          \/ /\ snapshots[i].createTime
                    = locals[i].now2 - cfg.SnapshotsAgeCritical * Day - 1
             /\ snapshots[i].ageCriticalState

\* s > T * 1024^3 over the integers, for int64 s >= 0 and T >= 0
MoreThanTimesGB(s, T) ==
    /\ T[1] = 0
    /\ \/ s[1] > T[2]
       \/ s[1] = T[2] /\ s[2] > T[3]
       \/ s[1] = T[2] /\ s[2] = T[3] /\ s[3] > 0

\* T * 1024^3 is within the int64 range: 0 <= T < 2^33
FitsTimesGB(T) == T[1] = 0 /\ T[2] < 8

(* C7, as the specification states it: for every threshold T in GB and     *)
(* every size of s bytes, ExceedsSize answers true exactly when            *)
(* s > T * 1024^3.                                                         *)
C7_SizeBoundaryEveryThreshold ==
    (call.fn = "ExceedsSize" /\ call.returned)
        => (call.result <=> MoreThanTimesGB(call.snapshotSize, call.thresholdSize))

(* C7, amended: for every threshold 0 <= T < 2^33 GB, the thresholds whose *)
(* byte value fits an int64, ExceedsSize and                               *)
(* SnapshotSummary.IsSizeExceeded answer true exactly when                 *)
(* s > T * 1024^3: exactly T GB is not exceeded, one byte more is.         *)
C7_SizeBoundary ==
    /\ (call.fn = "ExceedsSize" /\ call.returned
            /\ FitsTimesGB(call.thresholdSize))
          => /\ call.result
                   <=> MoreThanTimesGB(call.snapshotSize, call.thresholdSize)
             /\ call.snapshotSize
                   = Int64(call.thresholdSize[2], call.thresholdSize[3], 0)
                   => ~call.result
             /\ call.snapshotSize
                   = Int64(call.thresholdSize[2], call.thresholdSize[3], 1)
                   => call.result
    /\ (call.fn = "IsSizeExceeded" /\ call.returned)
          => /\ call.result <=> MoreThanGB(call.ss.Size, call.sizeGB)
             /\ call.ss.Size = Bytes(call.sizeGB, 0) => ~call.result
             /\ call.ss.Size = Bytes(call.sizeGB, 1) => call.result

\* ExceedsSize has answered true for a size one byte over a threshold of
\* at least one GB whose byte value fits
C7_Witness ==
    /\ call.fn = "ExceedsSize" /\ call.returned
    /\ FitsTimesGB(call.thresholdSize)
    /\ call.thresholdSize # Int64(0, 0, 0)
    /\ call.snapshotSize
          = Int64(call.thresholdSize[2], call.thresholdSize[3], 1)
    /\ call.result

\* the byte counts of the summaries added limb by limb
RECURSIVE LimbSum(_, _)
LimbSum(snaps, limb) ==
    IF snaps = <<>> THEN 0
    ELSE Head(snaps).Size[limb] + LimbSum(Tail(snaps), limb)

TotalSize(snaps) ==
    Bytes(LimbSum(snaps, 2) + (LimbSum(snaps, 3) \div GB), LimbSum(snaps, 3) % GB)

(* C8: the Size of a set is the sum of the Sizes of its summaries, and the *)
(* set's size warning and size critical flags are that sum against the     *)
(* size warning and the size critical threshold.                           *)
C8_SetSizeFlags ==
    \A s \in SetIds :
        /\ SetSize(snapshotSets[s]) = TotalSize(snapshotSets[s].Snapshots)
        /\ SetIsSizeWarningState(snapshotSets[s])
             = MoreThanGB(TotalSize(snapshotSets[s].Snapshots), cfg.SnapshotsSizeWarning)
        /\ SetIsSizeCriticalState(snapshotSets[s])
             = MoreThanGB(TotalSize(snapshotSets[s].Snapshots), cfg.SnapshotsSizeCritical)

\* a set of two summaries is over the critical size by its sum alone, and
\* a set is over the warning size but not the critical one
C8_Witness ==
    /\ \E s \in SetIds :
          /\ Len(snapshotSets[s].Snapshots) = 2
          /\ SetIsSizeCriticalState(snapshotSets[s])
          /\ \A i \in SnapIds(s) :
                ~MoreThanGB(snapshotSets[s].Snapshots[i].Size,
                            cfg.SnapshotsSizeCritical)
    /\ \E s \in SetIds :
          /\ SetIsSizeWarningState(snapshotSets[s])
          /\ ~SetIsSizeCriticalState(snapshotSets[s])

(* C9, as the specification states it: the collection's IsCriticalState is *)
(* true exactly when some summary has a critical age or size flag or some  *)
(* set's cumulative size is over the critical threshold, and likewise      *)
(* IsWarningState with the warning flags.                                  *)
C9_StateCountsSetSize ==
    pc = "done" =>
        /\ IsCriticalState(snapshotSets)
             = ( (\E s \in SetIds : \E i \in SnapIds(s) :
                     snapshotSets[s].Snapshots[i].ageCriticalState
                         \/ snapshotSets[s].Snapshots[i].sizeCriticalState)
                 \/ (\E s \in SetIds : snapshotSets[s].setSizeCriticalState) )
        /\ IsWarningState(snapshotSets)
             = ( (\E s \in SetIds : \E i \in SnapIds(s) :
                     snapshotSets[s].Snapshots[i].ageWarningState
                         \/ snapshotSets[s].Snapshots[i].sizeWarningState)
                 \/ (\E s \in SetIds : snapshotSets[s].setSizeWarningState) )

\* the overall state read off IsCriticalState and IsWarningState
OverallState(sss) ==
    IF IsCriticalState(sss) THEN "CRITICAL"
    ELSE IF IsWarningState(sss) THEN "WARNING" ELSE "OK"

\* a set whose only flags are age warning flags
AgeWarningOnly(set) ==
    /\ SetIsAgeWarningState(set)
    /\ ~SetIsCriticalState(set)
    /\ ~SetIsSizeWarningState(set) /\ ~SetIsSizeCriticalState(set)
    /\ \A i \in DOMAIN set.Snapshots : ~set.Snapshots[i].sizeWarningState

(* C10, as the specification states it: with one set over the critical     *)
(* size by its cumulative size and another set with age warnings only, the *)
(* overall state read off IsCriticalState and IsWarningState is critical.  *)
C10_CriticalOverridesWarning ==
    pc = "done" =>
        \A x, y \in SetIds :
            /\ x # y
            /\ snapshotSets[x].setSizeCriticalState
            /\ AgeWarningOnly(snapshotSets[y])
            => OverallState(snapshotSets) = "CRITICAL"

----------------------------------------------------------------------------
(* The verdict of the snapshots-age plugin.                                *)

\* some summary of some finished set carries the flag
AnySnapshot(flag) ==
    \E s \in SetIds : \E i \in SnapIds(s) : snapshotSets[s].Snapshots[i][flag]

(* C11: once main has returned from its switch, the exit state is CRITICAL *)
(* whenever some snapshot of some set is age-critical, WARNING exactly     *)
(* when no snapshot is age-critical and at least one is age-warning, and   *)
(* OK exactly when no snapshot carries an age flag.                        *)
C11_VerdictPrecedence ==
    pc = "done" =>
        /\ AnySnapshot("ageCriticalState")
              => nagiosExitState.ExitStatusCode = StateCRITICALExitCode
        /\ nagiosExitState.ExitStatusCode = StateWARNINGExitCode
              <=> (~AnySnapshot("ageCriticalState") /\ AnySnapshot("ageWarningState"))
        /\ nagiosExitState.ExitStatusCode = StateOKExitCode
              <=> (~AnySnapshot("ageCriticalState") /\ ~AnySnapshot("ageWarningState"))

\* main has returned CRITICAL for a collection in which one set has an
\* age-critical snapshot and another set has age-warning snapshots only
C11_Witness ==
    /\ pc = "done"
    /\ nagiosExitState.ExitStatusCode = StateCRITICALExitCode
    /\ \E x, y \in SetIds :
          /\ SetIsAgeCriticalState(snapshotSets[x])
          /\ SetIsAgeWarningState(snapshotSets[y])
          /\ ~SetIsAgeCriticalState(snapshotSets[y])

----------------------------------------------------------------------------
(* The counts of SnapshotSummarySets.ExceedsAge and ExceedsSize.           *)

\* the snapshots of set s that are themselves older than days at clock
OlderSnaps(s, days, clock) ==
    {i \in SnapIds(s) : snapshotSets[s].Snapshots[i].createTime < clock - days * Day}

\* the snapshots of set s that are themselves larger than sizeGB
LargerSnaps(s, sizeGB) ==
    {i \in SnapIds(s) : MoreThanGB(snapshotSets[s].Snapshots[i].Size, sizeGB)}

\* the number of pairs <<s, i>> with i in of[s]
PairCount(of) == Cardinality(UNION {{<<s, i>> : i \in of[s]} : s \in SetIds})

AgeCallReturned == call.fn = "SnapshotSummarySets.ExceedsAge" /\ call.returned

SizeCallReturned == call.fn = "SnapshotSummarySets.ExceedsSize" /\ call.returned

\* ExceedsAge returns the number of sets holding a snapshot older than days
\* and the number of such snapshots
AgeCountsIndividual ==
    AgeCallReturned =>
        LET older == [s \in SetIds |-> OlderSnaps(s, call.days, call.clock)]
        IN  /\ call.result[1] = Cardinality({s \in SetIds : older[s] # {}})
            /\ call.result[2] = PairCount(older)

----------------------------------------------------------------------------
(* The order of the summaries of a set.                                    *)

\* the identifiers of the forest depth-first, each node before its
\* children, siblings in the order of their list
RECURSIVE PreOrder(_)
PreOrder(trees) ==
    IF trees = <<>> THEN <<>>
    ELSE (<<Head(trees).Snapshot>> \o PreOrder(Head(trees).ChildSnapshotList))
         \o PreOrder(Tail(trees))

\* the identifiers of the summaries of finished set s, in list order
SummaryIds(s) == [i \in SnapIds(s) |-> snapshotSets[s].Snapshots[i].MOID]

(* C13: the Snapshots list of a set NewSnapshotSummarySet returns holds    *)
(* one summary per node of the machine's forest, in depth-first pre-order: *)
(* every node once, a parent before its descendants, siblings and roots in *)
(* the order of the input lists.                                           *)
C13_PreOrderOncePerNode ==
    \A s \in SetIds :
        LET vm == vmsWithSnapshots[s]
            order == PreOrder(vm.Snapshot.RootSnapshotList)
        IN  /\ SummaryIds(s) = order
            /\ \A i, j \in SnapIds(s) : i # j => SummaryIds(s)[i] # SummaryIds(s)[j]
            /\ \A j \in SnapIds(s) :
                  ParentOf(vm, SummaryIds(s)[j]) # NoRef
                      => \E i \in 1..(j - 1) :
                            SummaryIds(s)[i] = ParentOf(vm, SummaryIds(s)[j])

\* a finished set of a forest with two roots, the first of which has a
\* child: the child's summary stands between those of the roots
C13_Witness ==
    \E s \in SetIds :
        LET vm == vmsWithSnapshots[s]
        IN  /\ Len(vm.Snapshot.RootSnapshotList) = 2
            /\ Len(snapshotSets[s].Snapshots) = 3
            /\ ParentOf(vm, SummaryIds(s)[1]) = NoRef
            /\ ParentOf(vm, SummaryIds(s)[2]) = SummaryIds(s)[1]
            /\ ParentOf(vm, SummaryIds(s)[3]) = NoRef

----------------------------------------------------------------------------
(* Nodes without a layout entry.                                           *)

\* the summaries of the machine being crawled whose node has no snapshot
\* layout entry
NoLayoutNodes == {i \in NodeIds : EntriesOf(CurVM, snapshots[i].MOID) = {}}

\* the sum of the indexed sizes of all-disk-keys, occurrence by occurrence
AllDiskSize(vm) ==
    WeightedSize(vm, LayoutKeys(vm), [k \in LayoutKeys(vm) |-> AllDiskCount(vm, k)])

(* C14, as the specification states it: every node without a matching      *)
(* snapshot layout entry has an empty this-snapshot-keys list and a         *)
(* summary of Size 0.                                                      *)
C14_NoLayoutZeroSize ==
    \A i \in NoLayoutNodes :
        /\ locals[i].keys.allSnapshotKeys = <<>>
        /\ snapshots[i].Size = Zero

(* C14, amended: a node without a matching snapshot layout entry has an    *)
(* empty this-snapshot-keys list; its summary has Size 0 when it is not    *)
(* the current snapshot, and the sum of the indexed sizes of all-disk-keys *)
(* when it is.                                                             *)
C14_NoLayoutZeroUnlessCurrent ==
    \A i \in NoLayoutNodes :
        /\ locals[i].keys.allSnapshotKeys = <<>>
        /\ locals[i].keys.snapshotDiskFileKeys = <<>>
        /\ ~IsCurrent(CurVM, snapshots[i].MOID) => snapshots[i].Size = Zero
        /\ IsCurrent(CurVM, snapshots[i].MOID)
              => snapshots[i].Size = AllDiskSize(CurVM)

\* two nodes without a layout entry have been summarised on a machine with
\* attached disk files of non-zero size: the one that is not current with
\* Size 0, the current one with a Size that is not 0, while a node with an
\* entry has a Size of its own
C14_Witness ==
    /\ \E i, j \in NoLayoutNodes :
          /\ ~IsCurrent(CurVM, snapshots[i].MOID)
          /\ snapshots[i].Size = Zero
          /\ IsCurrent(CurVM, snapshots[j].MOID)
          /\ snapshots[j].Size # Zero
    /\ \E i \in NodeIds \ NoLayoutNodes : snapshots[i].Size # Zero
    /\ AllDiskSize(CurVM) # Zero

----------------------------------------------------------------------------
(* Termination of NewSnapshotSummarySet.                                   *)

(* C15, as the specification states it: given a snapshot forest with its   *)
(* file and snapshot layout lists, NewSnapshotSummarySet returns a set     *)
(* without aborting, whether or not the machine designates a current       *)
(* snapshot: no run of the crawl ends in a panic.                          *)
C15_NeverAborts == pc # "panic"

----------------------------------------------------------------------------
(* The sets of the collection and the machines of the inventory.           *)

\* the positions in the inventory of the machines that have snapshots
HasSnapshots ==
    {k \in DOMAIN vms : ~vms[k].Snapshot.IsNil
                         /\ vms[k].Snapshot.RootSnapshotList # <<>>}

\* the position in the inventory of the machine a finished set names
MachineOf(s) == CHOOSE k \in DOMAIN vms : vms[k].Name = snapshotSets[s].VMName

----------------------------------------------------------------------------
(* The end-to-end scenario.                                                *)

\* the flags of a summary: age warning, age critical, size warning, size
\* critical
Flags(ss) ==
    <<ss.ageWarningState, ss.ageCriticalState, ss.sizeWarningState,
      ss.sizeCriticalState>>

ScenarioDone == vms = <<ScenarioVM>> /\ cfg = ScenarioConfig /\ pc = "done"

(* C17: for machine M with root S1 (40 days old, 2 GB of its own) and its  *)
(* active child S2 (5 days old, 1 GB of its own and 0.5 GB written since), *)
(* under age thresholds 30 / 60 days and size thresholds 10 / 20 GB, S1    *)
(* has its age warning flag alone, S2 has no flag, the set's cumulative    *)
(* size is 3.5 GB with both set flags false, and the verdict is WARNING.   *)
C17_EndToEndScenario ==
    ScenarioDone =>
        /\ Len(snapshotSets) = 1
        /\ Len(snapshotSets[1].Snapshots) = 2
        /\ LET S1 == snapshotSets[1].Snapshots[1]
               S2 == snapshotSets[1].Snapshots[2]
           IN  /\ S1.MOID = 1 /\ S2.MOID = 2
               /\ S1.Size = Bytes(2, 0)
               /\ S2.Size = Bytes(1, GB \div 2)
               /\ Flags(S1) = <<TRUE, FALSE, FALSE, FALSE>>
               /\ Flags(S2) = <<FALSE, FALSE, FALSE, FALSE>>
        /\ SetSize(snapshotSets[1]) = Bytes(3, GB \div 2)
        /\ ~SetIsSizeWarningState(snapshotSets[1])
        /\ ~SetIsSizeCriticalState(snapshotSets[1])
        /\ nagiosExitState.ExitStatusCode = StateWARNINGExitCode
        /\ OverallState(snapshotSets) = "WARNING"

\* the run on machine M is over and its set of two summaries is in the
\* collection
C17_Witness ==
    /\ ScenarioDone
    /\ Len(snapshotSets) = 1
    /\ Len(snapshotSets[1].Snapshots) = 2
    /\ IsCurrent(vms[1], snapshotSets[1].Snapshots[2].MOID)

----------------------------------------------------------------------------
(* Logging levels.                                                         *)

\* the level each documented name stands for
DocumentedLevel ==
    [name \in {"disabled", "panic", "fatal", "error", "warn", "info", "debug", "trace"} |->
        CASE name = "disabled" -> "zerolog.Disabled"
          [] name = "panic" -> "zerolog.PanicLevel"
          [] name = "fatal" -> "zerolog.FatalLevel"
          [] name = "error" -> "zerolog.ErrorLevel"
          [] name = "warn" -> "zerolog.WarnLevel"
          [] name = "info" -> "zerolog.InfoLevel"
          [] name = "debug" -> "zerolog.DebugLevel"
          [] name = "trace" -> "zerolog.TraceLevel"]

(* C18: setLoggingLevel accepts the eight documented level names and no    *)
(* other string: for one of them the global level becomes the level of     *)
(* that name and no error is returned, for any other string an error is    *)
(* returned and the global level is what it was before the call.           *)
C18_LoggingLevelNames ==
    (call.fn = "setLoggingLevel" /\ call.returned) =>
        /\ call.logLevel \in DOMAIN DocumentedLevel
              => /\ call.err = NoError
                 /\ globalLevel = DocumentedLevel[call.logLevel]
        /\ call.logLevel \notin DOMAIN DocumentedLevel
              => /\ call.err # NoError
                 /\ globalLevel = call.before

\* a call with a string that is no level name has returned an error after
\* a call with a name had changed the level
C18_Witness ==
    /\ call.fn = "setLoggingLevel" /\ call.returned
    /\ call.logLevel = "warning"
    /\ call.err # NoError
    /\ globalLevel = "zerolog.TraceLevel"

----------------------------------------------------------------------------
(* Filtering of triggered alarms.                                          *)

FilterReturned == call.fn = "TriggeredAlarms.Filter" /\ call.returned

\* the keys reported after filtering
ReportedKeys == {call.keys[i] : i \in DOMAIN call.keys}

CPU == <<"Virtual", "machine", "CPU", "usage">>

\* the filters of the tests and the keys they want, sorted
TestFilters ==
    { <<TriggeredAlarmFilters({"VirtualMachine"}, {}, {}, {CPU}, {}, {}, {}, {}, FALSE),
        <<"alarm-7.vm-197">> >>,
      <<TriggeredAlarmFilters({"VirtualMachine"}, {}, {}, {CPU, <<"memory", "usage">>},
                              {}, {}, {}, {}, FALSE),
        <<>> >>,
      <<TriggeredAlarmFilters({}, {}, {}, {<<"datastore", "usage", "on", "disk">>,
                                           <<"tacos", "on", "sale">>},
                              {}, {}, {}, {}, FALSE),
        <<"alarm-6.vm-197", "alarm-7.vm-197">> >>,
      <<TriggeredAlarmFilters({}, {}, {}, {}, {}, {}, {}, {}, TRUE),
        <<"alarm-6.vm-197", "alarm-7.vm-197", "alarm-8.datastore-141490",
          "alarm-8.datastore-50119", "alarm-8.datastore-50120">> >>,
      <<TriggeredAlarmFilters({}, {}, {}, {}, {}, {}, {}, {}, FALSE),
        <<"alarm-6.vm-197", "alarm-7.vm-197", "alarm-8.datastore-141490",
          "alarm-8.datastore-50119">> >>,
      <<TriggeredAlarmFilters({}, {}, {}, {}, {<<"tacos", "on", "sale">>}, {}, {}, {}, FALSE),
        <<>> >>,
      <<TriggeredAlarmFilters({}, {}, {}, {}, {<<"tacos", "on", "sale">>}, {}, {}, {}, TRUE),
        <<>> >>,
      <<TriggeredAlarmFilters({}, {}, {<<"datastore", "usage", "on", "disk">>}, {},
                              {}, {}, {}, {}, FALSE),
        <<"alarm-8.datastore-141490", "alarm-8.datastore-50119">> >>,
      <<TriggeredAlarmFilters({}, {}, {<<"datastore", "usage", "on", "disk">>}, {},
                              {}, {}, {}, {}, TRUE),
        <<"alarm-8.datastore-141490", "alarm-8.datastore-50119",
          "alarm-8.datastore-50120">> >>,
      <<TriggeredAlarmFilters({"VirtualMachine"}, {}, {}, {CPU}, {}, {}, {"red"}, {}, TRUE),
        <<"alarm-7.vm-197", "alarm-8.datastore-141490">> >>,
      <<TriggeredAlarmFilters({"VirtualMachine"}, {}, {}, {CPU}, {}, {}, {"yellow"}, {}, FALSE),
        <<"alarm-7.vm-197", "alarm-8.datastore-50119">> >> }

\* the keys left after filtering are those each test wants
TestFiltersPass ==
    FilterReturned =>
        \A tt \in TestFilters : call.filters = tt[1] => call.keys = tt[2]

----------------------------------------------------------------------------
(* The parent context of crawlFunc.                                        *)

\* occurrences of k in the list l
Occurrences(l, k) == Cardinality({j \in DOMAIN l : l[j] = k})

\* the data keys of the layout entries of a snapshot
DataKeysOf(vm, node) ==
    {vm.LayoutEx.Snapshot[e].DataKey : e \in EntriesOf(vm, node)}

(* C20: for every node that is not a root the parent-disk-keys crawlFunc   *)
(* uses are the disk chain file keys of the layout entry of the node's     *)
(* immediate parent in the forest, without that entry's snapshot data key; *)
(* for every root they are empty.                                          *)
C20_ParentContext ==
    \A i \in NodeIds :
        LET node == snapshots[i].MOID
            parent == ParentOf(CurVM, node)
            used == locals[i].keys.parentSnapshotDiskFileKeys
        IN  /\ locals[i].keys.parent = parent
            /\ parent = NoRef => used = <<>>
            /\ parent # NoRef =>
                  /\ \A k \in LayoutKeys(CurVM) \cup Range(used) :
                        Occurrences(used, k) = ParentCount(CurVM, parent, k)
                  /\ \A k \in DataKeysOf(CurVM, parent) :
                        ParentCount(CurVM, parent, k) = 0 => k \notin Range(used)

\* a node two levels down has been given the disk keys of its parent's
\* entry, which are not those of its grandparent's nor of its own entry
C20_Witness ==
    \E i \in NodeIds :
        LET node == snapshots[i].MOID
            parent == ParentOf(CurVM, node)
            grand == ParentOf(CurVM, parent)
            used == locals[i].keys.parentSnapshotDiskFileKeys
        IN  /\ parent # NoRef
            /\ grand # NoRef
            /\ used # <<>>
            /\ \E k \in Range(used) : ParentCount(CurVM, grand, k) = 0
            /\ EntriesOf(CurVM, parent) # {}
            /\ EntriesOf(CurVM, grand) # {}

----------------------------------------------------------------------------
(* The attribution read over sets of identifiers.                          *)

\* all-disk-keys minus this-snapshot-keys, as sets
DriftKeySet(vm, node) == DiskKeySet(vm.LayoutEx.Disk) \ ThisKeySet(vm, node)

\* the Size the set-based definition attributes to node: the indexed sizes
\* of this-snapshot-keys minus its baseline, and for the current snapshot
\* those of all-disk-keys minus this-snapshot-keys as well
SetBasedSize(vm, node) ==
    IF IsCurrent(vm, node)
    THEN Int64Add(OwnSetSize(vm, node),
                  WeightedSize(vm, DriftKeySet(vm, node),
                               [k \in LayoutKeys(vm) |-> 1]))
    ELSE OwnSetSize(vm, node)

(* C21, as the specification states it: for every node and every input,    *)
(* key lists with repeated identifiers included, the Size crawlFunc sums   *)
(* from its slices is the Size of the set-based definition.                *)
C21_SliceEqualsSet ==
    \A i \in NodeIds :
        snapshots[i].Size = SetBasedSize(CurVM, snapshots[i].MOID)

----------------------------------------------------------------------------
(* Power cycle uptime (package vsphere, vms.go): the filter and the status *)
(* summary called on one list of machines with one pair of thresholds.     *)

\* most machines handed to the uptime functions
MaxUptimeVMs == 2

\* uptimeDays > float64(threshold), with uptimeDays the hours of
\* vm.Summary.QuickStats.UptimeSeconds divided by 24
UptimeDaysExceed(vm, threshold) ==
    vm.Summary.QuickStats.UptimeSeconds > threshold * 24 * 60 * 60

RECURSIVE FilterVMsByPowerCycleUptime(_, _, _)
FilterVMsByPowerCycleUptime(list, warningThreshold, criticalThreshold) ==
    IF list = <<>> THEN <<>>
    ELSE (IF UptimeDaysExceed(Head(list), warningThreshold)
          THEN <<Head(list)>> ELSE <<>>)
         \o FilterVMsByPowerCycleUptime(Tail(list), warningThreshold,
                                        criticalThreshold)

\* the loop of GetVMPowerCycleUptimeStatusSummary: acc is
\* [vmsCritical |-> ..., vmsWarning |-> ...]
RECURSIVE UptimeSwitch(_, _, _, _)
UptimeSwitch(list, warningThreshold, criticalThreshold, acc) ==
    IF list = <<>> THEN acc
    ELSE LET vm == Head(list)
             a == CASE UptimeDaysExceed(vm, criticalThreshold) ->
                         [acc EXCEPT !.vmsCritical = Append(@, vm)]
                    [] ~UptimeDaysExceed(vm, criticalThreshold)
                         /\ UptimeDaysExceed(vm, warningThreshold) ->
                         [acc EXCEPT !.vmsWarning = Append(@, vm)]
                    [] OTHER -> acc
         IN  UptimeSwitch(Tail(list), warningThreshold, criticalThreshold, a)

GetVMPowerCycleUptimeStatusSummary(list, warningThreshold, criticalThreshold) ==
    LET got == UptimeSwitch(list, warningThreshold, criticalThreshold,
                            [vmsCritical |-> <<>>, vmsWarning |-> <<>>])
    IN  [VMsCritical |-> got.vmsCritical,
         VMsWarning |-> got.vmsWarning,
         WarningThreshold |-> warningThreshold,
         CriticalThreshold |-> criticalThreshold]

\* a machine with its name and its uptime in seconds
UptimeVM(name, seconds) ==
    [Name |-> name, Summary |-> [QuickStats |-> [UptimeSeconds |-> seconds]]]

\* uptimes on and around thresholds of one, two and three days
UptimeArgs ==
    {0, 86400, 86401, 2 * 86400, 2 * 86400 + 1, 3 * 86400, 3 * 86400 + 1}

RECURSIVE UptimeVMLists(_)
UptimeVMLists(n) ==
    IF n = 0 THEN {<<>>}
    ELSE UptimeVMLists(n - 1)
         \cup {Append(l, UptimeVM(n, u)) :
                  l \in {x \in UptimeVMLists(n - 1) : Len(x) = n - 1},
                  u \in UptimeArgs}

\* thresholds in days; the functions take any pair of ints
UptimeThresholdArgs == 1..3

InitUptime ==
    /\ \E list \in UptimeVMLists(MaxUptimeVMs),
          warningThreshold \in UptimeThresholdArgs,
          criticalThreshold \in UptimeThresholdArgs :
          call = [fn |-> "PowerCycleUptime", vms |-> list,
                  warningThreshold |-> warningThreshold,
                  criticalThreshold |-> criticalThreshold,
                  filterReturned |-> FALSE, vmsWithIssues |-> <<>>,
                  summaryReturned |-> FALSE,
                  uptimeSummary |->
                      [VMsCritical |-> <<>>, VMsWarning |-> <<>>,
                       WarningThreshold |-> 0, CriticalThreshold |-> 0]]
    /\ vms = <<>>
    /\ cfg = ConfigA
    /\ clockEnd = StartTime
    /\ now = StartTime
    /\ pc = "call"
    /\ vmsWithSnapshots = <<>>
    /\ vmIdx = 0
    /\ vmAllDiskFileKeys = <<>>
    /\ fileKeyMap = <<>>
    /\ stack = <<>>
    /\ snapshots = <<>>
    /\ locals = <<>>
    /\ snapshotSets = <<>>
    /\ nagiosExitState = [ExitStatusCode |-> StateOKExitCode]
    /\ globalLevel = loggingLevels[LogLevelInfo]

CallFilterVMsByPowerCycleUptime ==
    /\ call.fn = "PowerCycleUptime"
    /\ ~call.filterReturned
    /\ call' = [call EXCEPT
                   !.vmsWithIssues =
                       FilterVMsByPowerCycleUptime(call.vms, call.warningThreshold,
                                                   call.criticalThreshold),
                   !.filterReturned = TRUE]
    /\ UNCHANGED <<vms, cfg, clockEnd, now, pc, vmsWithSnapshots, vmIdx,
                   vmAllDiskFileKeys, fileKeyMap, stack, snapshots, locals,
                   snapshotSets, nagiosExitState, globalLevel>>

CallGetVMPowerCycleUptimeStatusSummary ==
    /\ call.fn = "PowerCycleUptime"
    /\ ~call.summaryReturned
    /\ call' = [call EXCEPT
                   !.uptimeSummary =
                       GetVMPowerCycleUptimeStatusSummary(
                           call.vms, call.warningThreshold, call.criticalThreshold),
                   !.summaryReturned = TRUE]
    /\ UNCHANGED <<vms, cfg, clockEnd, now, pc, vmsWithSnapshots, vmIdx,
                   vmAllDiskFileKeys, fileKeyMap, stack, snapshots, locals,
                   snapshotSets, nagiosExitState, globalLevel>>

NextUptime ==
    \/ CallFilterVMsByPowerCycleUptime
    \/ CallGetVMPowerCycleUptimeStatusSummary

SpecUptime == InitUptime /\ [][NextUptime]_vars

\* both functions have returned
UptimeReturned ==
    call.fn = "PowerCycleUptime" /\ call.filterReturned /\ call.summaryReturned

(* C25, as the specification states it: for the same thresholds,           *)
(* FilterVMsByPowerCycleUptime returns exactly the machines that           *)
(* GetVMPowerCycleUptimeStatusSummary places in VMsWarning or VMsCritical, *)
(* every machine classified CRITICAL among them, and VMsWarning and        *)
(* VMsCritical are disjoint.                                               *)
C25_FilterMatchesSummary ==
    UptimeReturned =>
        /\ Range(call.vmsWithIssues)
               = Range(call.uptimeSummary.VMsWarning)
                     \cup Range(call.uptimeSummary.VMsCritical)
        /\ Range(call.uptimeSummary.VMsCritical) \subseteq Range(call.vmsWithIssues)
        /\ Range(call.uptimeSummary.VMsWarning)
               \cap Range(call.uptimeSummary.VMsCritical) = {}

----------------------------------------------------------------------------
(* The two age flags of one summary.                                       *)

(* C26, as the specification states it: whenever the age WARNING threshold *)
(* is at most the age CRITICAL threshold, a summary with ageCriticalState  *)
(* true has ageWarningState true.                                          *)
C26_CriticalImpliesWarning ==
    \A i \in NodeIds :
        cfg.SnapshotsAgeWarning <= cfg.SnapshotsAgeCritical
            => (snapshots[i].ageCriticalState => snapshots[i].ageWarningState)

(* C26, amended: a summary with ageCriticalState true has ageWarningState  *)
(* true whenever the clock reading of the second ExceedsAge call is no     *)
(* more than (CRITICAL - WARNING) days after that of the first; with equal *)
(* thresholds that is the case of two equal readings.                      *)
C26_CriticalImpliesWarningWithinMargin ==
    \A i \in NodeIds :
        (/\ cfg.SnapshotsAgeWarning <= cfg.SnapshotsAgeCritical
         /\ locals[i].now2 - locals[i].now1
                <= (cfg.SnapshotsAgeCritical - cfg.SnapshotsAgeWarning) * Day)
            => (snapshots[i].ageCriticalState => snapshots[i].ageWarningState)

\* the clock has moved between the two calls made for a summary, which has
\* both flags set, under thresholds that differ
C26_Witness ==
    \E i \in NodeIds :
        /\ cfg.SnapshotsAgeWarning < cfg.SnapshotsAgeCritical
        /\ locals[i].now2 > locals[i].now1
        /\ snapshots[i].ageCriticalState
        /\ snapshots[i].ageWarningState

----------------------------------------------------------------------------
(* The one-line summaries.                                                 *)

(* C27: when SnapshotsAgeOneLineCheckSummary or                            *)
(* SnapshotsSizeOneLineCheckSummary takes its CRITICAL or its WARNING case *)
(* on the sets built with the same thresholds, and the clock has not gone  *)
(* back since, the number of machines and the number of snapshots it       *)
(* reports from ExceedsAge / ExceedsSize are both at least 1.              *)
C27_ReportedCountsPositive ==
    call.fn = "OneLineCheckSummary" =>
        /\ (call.ageReturned /\ call.age.case \in {"critical", "warning"})
              => (call.age.vms >= 1 /\ call.age.snapshots >= 1)
        /\ (call.sizeReturned /\ call.size.case \in {"critical", "warning"})
              => (call.size.vms >= 1 /\ call.size.snapshots >= 1)

\* both lines have been written, the age line by its CRITICAL case with the
\* clock read later than it was for the flags, the size line by its WARNING
\* case
C27_Witness ==
    /\ call.fn = "OneLineCheckSummary"
    /\ call.ageReturned /\ call.sizeReturned
    /\ call.age.case = "critical"
    /\ call.size.case = "warning"
    /\ call.clock > StartTime
    /\ call.age.vms >= 1 /\ call.size.snapshots >= 1

----------------------------------------------------------------------------
(* The list of snapshots in the reports.                                   *)

\* times the snapshot i of set s is listed under the two headings
TimesListed(s, i) ==
    Cardinality({j \in DOMAIN call.result.exceeding :
                    call.result.exceeding[j] = <<s, i>>})
    + Cardinality({j \in DOMAIN call.result.notYetExceeding :
                      call.result.notYetExceeding[j] = <<s, i>>})

(* C28, as the specification states it: writeSnapshotsListEntries lists    *)
(* every snapshot of the collection under exactly one of its two headings, *)
(* for the age and for the size report and for any time elapsed since the  *)
(* sets were built.                                                        *)
C28_ReportPartition ==
    call.fn = "writeSnapshotsListEntries" =>
        \A s \in SetIds : \A i \in SnapIds(s) : TimesListed(s, i) = 1

----------------------------------------------------------------------------
(* The plugins' main functions: configuration, login, the retrieval steps, *)
(* the evaluation, and the deferred calls run as main returns.             *)

\* check_vmware_snapshots_age, check_vmware_vhw, check_vmware_vcpus,
\* check_vmware_disk_consolidation, check_vmware_hs2ds2vms
MainPlugins == {"snapshots_age", "vhw", "vcpus", "disk_consolidation", "hs2ds2vms"}

\* the calls of main between the login and the evaluation whose error ends
\* the run
StepsOf(plugin) ==
    <<"ValidateRPs", "GetEligibleRPs", "GetVMs">>
    \o (IF plugin = "hs2ds2vms"
        THEN <<"GetDatastores", "IgnoredDatastores", "GetHostSystems",
               "DatastoreCAVal", "HostCAVal", "NewHostToDatastoreIndex",
               "ValidateVirtualMachinePairings">>
        ELSE <<>>)

\* no plugin defers c.Logout
DefersLogoutNever(plugin) == FALSE

\* the mains that defer c.Logout after the login
DefersLogout(plugin) == plugin \in {"snapshots_age", "vhw", "disk_consolidation"}

\* the exit state a case of the final switch of main leaves
Verdict(lastError, exitStatusCode) ==
    [LastError |-> lastError, ExitStatusCode |-> exitStatusCode]

\* the cases of the final switch of each main
Verdicts(plugin) ==
    CASE plugin = "snapshots_age" ->
            {Verdict("ErrSnapshotAgeThresholdCrossed", StateCRITICALExitCode),
             Verdict("ErrSnapshotAgeThresholdCrossed", StateWARNINGExitCode),
             Verdict("nil", StateOKExitCode)}
      [] plugin = "vhw" ->
            {Verdict("hardware versions differ", StateWARNINGExitCode),
             Verdict("nil", StateOKExitCode)}
      [] plugin = "vcpus" ->
            {Verdict("vCPUs allocated", StateCRITICALExitCode),
             Verdict("vCPUs allocated", StateWARNINGExitCode),
             Verdict("nil", StateOKExitCode)}
      [] plugin = "disk_consolidation" ->
            {Verdict("ErrVirtualMachineDiskConsolidationNeeded", StateCRITICALExitCode),
             Verdict("nil", StateOKExitCode)}
      [] plugin = "hs2ds2vms" ->
            {Verdict("ErrVMDatastoreNotInVMHostPairedList", StateCRITICALExitCode),
             Verdict("nil", StateOKExitCode)}

\* a failed step that records its error and leaves the exit code as it was
StepFailedKeepCode(exitState, err) == [exitState EXCEPT !.LastError = err]

\* the assignments every failed step makes before it returns
StepFailed(exitState, err) ==
    [exitState EXCEPT !.LastError = err,
                      !.ExitStatusCode = StateCRITICALExitCode]

\* deferred calls run in the order they were deferred in
PopDeferredOldest(deferred) ==
    [fn |-> Head(deferred), rest |-> Tail(deferred)]

\* the deferred call run next as main returns: the one deferred last
PopDeferred(deferred) ==
    [fn |-> deferred[Len(deferred)],
     rest |-> SubSeq(deferred, 1, Len(deferred) - 1)]

InitMain ==
    /\ \E plugin \in MainPlugins :
          call = [fn |-> "main", plugin |-> plugin, returned |-> FALSE,
                  step |-> 1, deferred |-> <<"ReturnCheckResults">>,
                  trace |-> <<>>, loggedIn |-> FALSE, failed |-> "none",
                  panicking |-> FALSE]
    /\ nagiosExitState = [LastError |-> "nil", ExitStatusCode |-> StateOKExitCode]
    /\ pc = "config"
    /\ vms = <<>>
    /\ cfg = ConfigA
    /\ clockEnd = StartTime
    /\ now = StartTime
    /\ vmsWithSnapshots = <<>>
    /\ vmIdx = 0
    /\ vmAllDiskFileKeys = <<>>
    /\ fileKeyMap = <<>>
    /\ stack = <<>>
    /\ snapshots = <<>>
    /\ locals = <<>>
    /\ snapshotSets = <<>>
    /\ globalLevel = loggingLevels[LogLevelInfo]

\* config.New and the switch on its error; context.WithTimeout and the
\* deferred cancel follow a working configuration
MainConfig ==
    /\ pc = "config"
    /\ \E cfgErr \in {"nil", "ErrVersionRequested", "cfgErr"} :
          CASE cfgErr = "ErrVersionRequested" ->
                  /\ call' = [call EXCEPT !.trace = Append(@, "config.New")]
                  /\ pc' = "deferred"
                  /\ UNCHANGED nagiosExitState
            [] cfgErr = "cfgErr" ->
                  /\ call' = [call EXCEPT !.trace = Append(@, "config.New"),
                                          !.failed = "config.New"]
                  /\ nagiosExitState' = StepFailed(nagiosExitState, cfgErr)
                  /\ pc' = "deferred"
            [] OTHER ->
                  /\ call' = [call EXCEPT !.trace = Append(@, "config.New"),
                                          !.deferred = Append(@, "cancel")]
                  /\ pc' = "login"
                  /\ UNCHANGED nagiosExitState
    /\ UNCHANGED <<vms, cfg, clockEnd, now, vmsWithSnapshots, vmIdx,
                   vmAllDiskFileKeys, fileKeyMap, stack, snapshots, locals,
                   snapshotSets, globalLevel>>

\* vsphere.Login; a main that logs out defers c.Logout after it
MainLogin ==
    /\ pc = "login"
    /\ \E loginErr \in {"nil", "loginErr"} :
          IF loginErr # "nil"
          THEN /\ call' = [call EXCEPT !.trace = Append(@, "Login"),
                                       !.failed = "Login"]
               /\ nagiosExitState' = StepFailed(nagiosExitState, loginErr)
               /\ pc' = "deferred"
          ELSE /\ call' = [call EXCEPT
                              !.trace = Append(@, "Login"),
                              !.loggedIn = TRUE,
                              !.deferred = IF DefersLogout(call.plugin)
                                           THEN Append(@, "Logout") ELSE @]
               /\ pc' = "steps"
               /\ UNCHANGED nagiosExitState
    /\ UNCHANGED <<vms, cfg, clockEnd, now, vmsWithSnapshots, vmIdx,
                   vmAllDiskFileKeys, fileKeyMap, stack, snapshots, locals,
                   snapshotSets, globalLevel>>

\* the next call between login and evaluation, and the check of its error
MainStep ==
    /\ pc = "steps"
    /\ call.step <= Len(StepsOf(call.plugin))
    /\ LET name == StepsOf(call.plugin)[call.step]
       IN  \E err \in {"nil", "err"} :
              IF err # "nil"
              THEN /\ call' = [call EXCEPT !.trace = Append(@, name),
                                           !.failed = name]
                   /\ nagiosExitState' = StepFailed(nagiosExitState, name)
                   /\ pc' = "deferred"
              ELSE /\ call' = [call EXCEPT !.trace = Append(@, name),
                                           !.step = @ + 1]
                   /\ UNCHANGED <<nagiosExitState, pc>>
    /\ UNCHANGED <<vms, cfg, clockEnd, now, vmsWithSnapshots, vmIdx,
                   vmAllDiskFileKeys, fileKeyMap, stack, snapshots, locals,
                   snapshotSets, globalLevel>>

\* the evaluation and the final switch of main
MainEvaluate ==
    /\ pc = "steps"
    /\ call.step > Len(StepsOf(call.plugin))
    /\ \E verdict \in Verdicts(call.plugin) :
          nagiosExitState' = [nagiosExitState EXCEPT
                                 !.LastError = verdict.LastError,
                                 !.ExitStatusCode = verdict.ExitStatusCode]
    /\ call' = [call EXCEPT !.trace = Append(@, "evaluate")]
    /\ pc' = "deferred"
    /\ UNCHANGED <<vms, cfg, clockEnd, now, vmsWithSnapshots, vmIdx,
                   vmAllDiskFileKeys, fileKeyMap, stack, snapshots, locals,
                   snapshotSets, globalLevel>>

\* NewSnapshotSummarySet aborts main with a panic (nil CurrentSnapshot)
MainPanic ==
    /\ pc = "steps"
    /\ call.step > Len(StepsOf(call.plugin))
    /\ call.plugin = "snapshots_age"
    /\ call' = [call EXCEPT !.trace = Append(@, "evaluate"), !.panicking = TRUE]
    /\ pc' = "deferred"
    /\ UNCHANGED <<vms, cfg, clockEnd, now, vmsWithSnapshots, vmIdx,
                   vmAllDiskFileKeys, fileKeyMap, stack, snapshots, locals,
                   snapshotSets, nagiosExitState, globalLevel>>

\* main returns (or panics): one deferred call runs.  ReturnCheckResults
\* ends the process; when main is panicking it either reports the crash as
\* CRITICAL or leaves the exit state as it is, depending on the go-nagios
\* release
MainDeferred ==
    /\ pc = "deferred"
    /\ call.deferred # <<>>
    /\ LET next == PopDeferred(call.deferred)
       IN  /\ call' = [call EXCEPT !.trace = Append(@, next.fn),
                                   !.deferred = next.rest,
                                   !.returned = (next.fn = "ReturnCheckResults")]
           /\ IF next.fn = "ReturnCheckResults"
              THEN /\ pc' = "exited"
                   /\ \/ UNCHANGED nagiosExitState
                      \/ /\ call.panicking
                         /\ nagiosExitState' = StepFailed(nagiosExitState, "panic")
              ELSE UNCHANGED <<pc, nagiosExitState>>
    /\ UNCHANGED <<vms, cfg, clockEnd, now, vmsWithSnapshots, vmIdx,
                   vmAllDiskFileKeys, fileKeyMap, stack, snapshots, locals,
                   snapshotSets, globalLevel>>

NextMain ==
    \/ MainConfig
    \/ MainLogin
    \/ MainStep
    \/ MainEvaluate
    \/ MainPanic
    \/ MainDeferred

SpecMain == InitMain /\ [][NextMain]_vars

\* the places of an event in the trace of main
PlacesOf(event) == {j \in DOMAIN call.trace : call.trace[j] = event}

(* C29: in the snapshots-age plugin, once the login has succeeded Logout   *)
(* is invoked exactly once on every path, before the timeout context is    *)
(* cancelled and before the check results are returned; when the           *)
(* configuration or the login fails Logout is never invoked and no         *)
(* inventory retrieval is attempted.                                       *)
C29_LogoutOrdering ==
    (call.fn = "main" /\ call.plugin = "snapshots_age") =>
        /\ Cardinality(PlacesOf("Logout")) <= 1
        /\ call.loggedIn =>
              /\ \A j \in PlacesOf("cancel") \cup PlacesOf("ReturnCheckResults") :
                    \E l \in PlacesOf("Logout") : l < j
              /\ pc = "exited" => Cardinality(PlacesOf("Logout")) = 1
        /\ ~call.loggedIn =>
              /\ PlacesOf("Logout") = {}
              /\ \A j \in DOMAIN call.trace :
                    call.trace[j] \notin Range(StepsOf(call.plugin))

\* the plugin has exited after a login and an evaluation that panicked:
\* Logout, cancel and ReturnCheckResults have run in that order
C29_Witness ==
    /\ call.fn = "main" /\ call.plugin = "snapshots_age"
    /\ pc = "exited"
    /\ call.loggedIn /\ call.panicking
    /\ \E l \in PlacesOf("Logout"), c \in PlacesOf("cancel"),
          r \in PlacesOf("ReturnCheckResults") : l < c /\ c < r

\* the calls of a main that a failed call keeps from running
StepEvents(plugin) ==
    {"config.New", "Login", "evaluate"} \cup Range(StepsOf(plugin))

(* C30: in every plugin main, when the check results are returned the exit *)
(* code is OK exactly when LastError is nil; a failed step (configuration, *)
(* login, resource pool validation, inventory retrieval) ends the run with *)
(* CRITICAL and no later step is executed.                                 *)
C30_ExitStateInvariant ==
    call.fn = "main" =>
        /\ call.returned =>
              (nagiosExitState.ExitStatusCode = StateOKExitCode
                  <=> nagiosExitState.LastError = "nil")
        /\ call.failed # "none" =>
              /\ nagiosExitState.ExitStatusCode = StateCRITICALExitCode
              /\ nagiosExitState.LastError # "nil"
              /\ \A j \in PlacesOf(call.failed), k \in DOMAIN call.trace :
                    k > j => call.trace[k] \notin StepEvents(call.plugin)

\* a run whose inventory retrieval failed has returned its check results
C30_Witness ==
    /\ call.fn = "main"
    /\ call.returned
    /\ call.failed = "GetVMs"
    /\ nagiosExitState.ExitStatusCode = StateCRITICALExitCode

----------------------------------------------------------------------------
(* C22: frame of the per-node computation.                                 *)

\* the Size of the i-th summary computed from the inventory of the virtual
\* machine alone, whatever nodes were processed before it
SizeFromInventory(i) ==
    NodeSize(BuildFileKeyMap(CurVM.LayoutEx.File),
             NodeKeys(CurVM, DiskFileKeys(CurVM.LayoutEx.Disk),
                      [Snapshot |-> locals[i].keys.snapTree],
                      locals[i].keys.parent))

(* C22: the list of all disk file keys and the file-key index are built    *)
(* once before the tree walk and are as built after every node (removals   *)
(* are made on per-node copies), so a node's Size does not depend on the   *)
(* nodes processed before it.                                              *)
C22_SharedListsUnchanged ==
    pc = "crawl" =>
        /\ vmAllDiskFileKeys = DiskFileKeys(CurVM.LayoutEx.Disk)
        /\ fileKeyMap = BuildFileKeyMap(CurVM.LayoutEx.File)
        /\ \A i \in 1..Len(snapshots) : snapshots[i].Size = SizeFromInventory(i)

\* the active node, whose removals emptied part of its copy of the disk
\* key list, was processed before another node that reads the list
C22_Witness ==
    /\ pc = "crawl"
    /\ \E i, j \in 1..Len(snapshots) :
          /\ i < j
          /\ locals[i].keys.active
          /\ locals[i].keys.remainingDiskFiles # vmAllDiskFileKeys
          /\ locals[j].keys.parent = NoRef
          /\ locals[j].keys.snapshotDiskFileKeys # locals[j].keys.allSnapshotKeys

----------------------------------------------------------------------------
(* C23: the order inside the inputs.                                       *)

\* the orders of n things
Perms(n) == {f \in [1..n -> 1..n] : \A a, b \in 1..n : f[a] = f[b] => a = b}

\* the ways a disk list can hold its file keys: one link per key, one disk
\* per key, or all keys in one link
DiskShapes == {"links", "disks", "keys"}

\* the disks holding the keys l in the order f
ShapedDisks(l, f, shape) ==
    LET n == Len(l)
        k == [j \in 1..n |-> l[f[j]]]
    IN  IF n = 0 THEN <<>>
        ELSE CASE shape = "links" ->
                    <<[Chain |-> [j \in 1..n |-> [FileKey |-> <<k[j]>>]]]>>
               [] shape = "disks" ->
                    [j \in 1..n |-> [Chain |-> <<[FileKey |-> <<k[j]>>]>>]]
               [] shape = "keys" ->
                    <<[Chain |-> <<[FileKey |-> k]>>]>>

\* vm with the file keys of one layout entry, or of the attached disks, or
\* the entries of the snapshot layout list put in another order
Reordered(vm) ==
    LET layout == vm.LayoutEx.Snapshot
    IN  UNION {{[vm EXCEPT !.LayoutEx.Snapshot[e].Disk =
                        ShapedDisks(DiskFileKeys(layout[e].Disk), f, shape)] :
                    f \in Perms(Len(DiskFileKeys(layout[e].Disk))),
                    shape \in DiskShapes} :
                  e \in DOMAIN layout}
        \cup
        {[vm EXCEPT !.LayoutEx.Disk =
                        ShapedDisks(DiskFileKeys(vm.LayoutEx.Disk), f, shape)] :
            f \in Perms(Len(DiskFileKeys(vm.LayoutEx.Disk))), shape \in DiskShapes}
        \cup
        {[vm EXCEPT !.LayoutEx.Snapshot = [j \in 1..Len(layout) |-> layout[f[j]]]] :
            f \in Perms(Len(layout))}

\* the Size crawlFunc gives the i-th node of the walk when the inventory
\* is vm
SizeIn(vm, i) ==
    NodeSize(BuildFileKeyMap(vm.LayoutEx.File),
             NodeKeys(vm, DiskFileKeys(vm.LayoutEx.Disk),
                      [Snapshot |-> locals[i].keys.snapTree],
                      locals[i].keys.parent))

(* C23: a summary's Size does not depend on the order of the file keys     *)
(* within disk chains, of the disks within a layout entry, or of the       *)
(* entries in the snapshot layout list.                                    *)
C23_OrderIndependent ==
    (pc = "crawl" /\ snapshots # <<>>) =>
        \A vm \in Reordered(CurVM) :
            snapshots[Len(snapshots)].Size = SizeIn(vm, Len(snapshots))

\* the summary just built is of a node whose layout entry names two
\* different keys, one of them removed by the pruning, in a layout list of
\* at least two entries
C23_Witness ==
    /\ pc = "crawl" /\ snapshots # <<>>
    /\ Len(CurVM.LayoutEx.Snapshot) >= 2
    /\ LET keys == locals[Len(snapshots)].keys
       IN  /\ Len(keys.allSnapshotKeys) >= 3
           /\ keys.allSnapshotKeys[2] # keys.allSnapshotKeys[3]
           /\ Len(keys.snapshotDiskFileKeys) = 2
    /\ \E vm \in Reordered(CurVM) : vm # CurVM

----------------------------------------------------------------------------
(* C24: the sign of the sizes.  The plugin run on machines whose files are *)
(* of sizes up to the largest int64.                                       *)

\* file sizes from nothing to the largest int64
LargeSizes ==
    {Zero, Bytes(0, 1), Int64(3, 0, 0), Int64(4, 0, 0), Int64(7, GB - 1, GB - 1)}

\* chains of one or two snapshots with files of these sizes, the second
\* snapshot's data file missing from the file list; one machine has no
\* current snapshot
VMsLarge ==
    {ChainVM(1, <<Node(Fresh, a)>>, d) : a \in LargeSizes, d \in LargeSizes}
    \cup {ChainVM(1, <<Node(Fresh, a), Node(Fresh, b)>>, d) :
            a \in LargeSizes, b \in LargeSizes, d \in LargeSizes}
    \cup {MkVM(1, <<NoRef>>, NoRef, <<Fresh>>, <<Entry(11, <<1>>)>>, <<1, 2>>,
               <<[Key |-> 1, Size |-> Bytes(5, 0)]>>)}

InitLarge ==
    /\ vms \in {<<vm>> : vm \in VMsLarge}
    /\ cfg = ConfigA
    /\ clockEnd = StartTime
    /\ call = NoCall
    /\ now = StartTime
    /\ pc = "filter"
    /\ vmsWithSnapshots = <<>>
    /\ vmIdx = 0
    /\ vmAllDiskFileKeys = <<>>
    /\ fileKeyMap = <<>>
    /\ stack = <<>>
    /\ snapshots = <<>>
    /\ locals = <<>>
    /\ snapshotSets = <<>>
    /\ nagiosExitState = [ExitStatusCode |-> StateOKExitCode]
    /\ globalLevel = loggingLevels[LogLevelInfo]

SpecLarge == InitLarge /\ [][Next]_vars

\* a + b of two limb triples with the top limb left to grow: the sum as a
\* number, not as an int64
AddExact(a, b) ==
    LET r == a[3] + b[3]
        m == a[2] + b[2] + (r \div GB)
    IN  <<a[1] + b[1] + (m \div GB), m % GB, r % GB>>

RECURSIVE SumExact(_, _)
SumExact(f, n) == IF n = 0 THEN Zero ELSE AddExact(SumExact(f, n - 1), f[n])

\* the sizes a node's Size adds up, one per occurrence of a key
Addends(m, keys) ==
    LET l == keys.snapshotDiskFileKeys
             \o (IF keys.active THEN keys.remainingDiskFiles ELSE <<>>)
    IN  [j \in 1..Len(l) |-> FileSize(m, l[j])]

NonNegative(a) == a[1] >= 0

\* a number that an int64 holds
FitsInt64(a) == a[1] < 8

\* the keys of l that the index holds
Indexed(m, l) == SelectSeq(l, LAMBDA k : k \in DOMAIN m)

(* C24: given non-negative file sizes, every summary's Size and every      *)
(* set's Size() is non-negative.                                           *)
C24_NonNegative ==
    /\ \A i \in 1..Len(snapshots) : NonNegative(snapshots[i].Size)
    /\ \A s \in 1..Len(snapshotSets) : NonNegative(SetSize(snapshotSets[s]))

(* C24 as the code has it: given non-negative file sizes, a summary's Size *)
(* is non-negative when the sizes it adds up total at most the largest     *)
(* int64, and a set's Size() is non-negative when its summaries' Sizes are *)
(* and total at most the largest int64; a file key absent from the index   *)
(* contributes 0.                                                          *)
C24_NonNegativeWithinInt64 ==
    /\ \A i \in 1..Len(snapshots) :
          LET keys == locals[i].keys
              sizes == Addends(fileKeyMap, keys)
          IN  /\ FitsInt64(SumExact(sizes, Len(sizes)))
                    => NonNegative(snapshots[i].Size)
              /\ snapshots[i].Size =
                    NodeSize(fileKeyMap,
                        [keys EXCEPT
                            !.snapshotDiskFileKeys = Indexed(fileKeyMap, @),
                            !.remainingDiskFiles = Indexed(fileKeyMap, @)])
    /\ \A s \in 1..Len(snapshotSets) :
          LET snaps == snapshotSets[s].Snapshots
              sizes == [j \in 1..Len(snaps) |-> snaps[j].Size]
          IN  (/\ \A j \in 1..Len(snaps) : NonNegative(sizes[j])
               /\ FitsInt64(SumExact(sizes, Len(sizes))))
                  => NonNegative(SetSize(snapshotSets[s]))

\* a finished set whose second summary counted a key absent from the
\* index and came to more than 2^62 bytes, within the int64 range
C24_Witness ==
    /\ snapshotSets # <<>>
    /\ Len(snapshots) = 2
    /\ \E k \in Range(locals[2].keys.snapshotDiskFileKeys) : k \notin DOMAIN fileKeyMap
    /\ LET sizes == Addends(fileKeyMap, locals[2].keys)
       IN  FitsInt64(SumExact(sizes, Len(sizes)))
    /\ snapshots[2].Size[1] >= 4
    /\ NonNegative(SetSize(snapshotSets[1]))

====
